---- MODULE Spec2Model ----
(***************************************************************************)
(* Waveform synthesis of PycQED: the Pulse base class (pulse.py) and the   *)
(* pulse shapes of pulse_library.py, as a state machine over pulse objects *)
(* that are constructed, placed in time and queried; and the predistortion *)
(* filters of fluxpulse_predistortion.py applied to the waveforms of an    *)
(* element.                                                                *)
(*                                                                         *)
(* Numbers.  Times are integer multiples of one sample period.  Amplitudes *)
(* are integers (multiples of 16, so that the divisions below are exact).  *)
(* Phases are integer degrees, multiples of 90; a modulation frequency f   *)
(* is counted in quarter cycles per sample period, so that the code's      *)
(* 360 * f * t is 90 * f * t here and cos is exact on every phase that     *)
(* occurs.  erf and exp are tabulated at a fixed resolution (Erf2, Gauss8).*)
(*                                                                         *)
(* Python values.  None is the empty tuple and an optional value v is <<v>>*)
(* for numbers; the channel None is the string "None".  A call's outcome   *)
(* is a record [kind, val, exc]: kind is "array" (a numpy array, val its   *)
(* samples), "list" (a hash list), "dict", "none", "number" or "raise"     *)
(* (exc names the exception).  A Python bool inside a hash list is the     *)
(* integer it equals (True == 1).                                          *)
(***************************************************************************)
EXTENDS Integers, Sequences, FiniteSets, TLC

VARIABLES pulse, kwargs, element, segments, cached_kernels, kernel_dir, ret

vars ==
  <<pulse, kwargs, element, segments, cached_kernels, kernel_dir, ret>>

\* ------------------------------------------------------------------ bounds
\* number of samples of a tvals grid
NSamples == 4
\* algorithm_time, tstart and the first sample time range over 0..MaxT
MaxT == 1

\* ----------------------------------------------------------- input domains
None == <<>>
Some(v) == <<v>>
NoChannel == "None"
AllChannels == {"ch1", "ch2", "ch3"}
Times == 0..MaxT
AmpSet == {16, 32}
PhaseSet == {0, 90, 360}

\* the uniform sample grid start, start + dt, ...
Tvals(start, dt) == [i \in 1..NSamples |-> start + (i - 1) * dt]
TvalsSet == {Tvals(s, 1) : s \in Times}

\* ------------------------------------------------------------ Python values
Raise(e) == [kind |-> "raise", val |-> <<>>, exc |-> e]
Arr(w) == [kind |-> "array", val |-> w, exc |-> ""]
HashList(h) == [kind |-> "list", val |-> h, exc |-> ""]
PyNone == [kind |-> "none", val |-> <<>>, exc |-> ""]
EmptyDict == [kind |-> "dict", val |-> <<>>, exc |-> ""]
Dict(d) == [kind |-> "dict", val |-> d, exc |-> ""]
Number(n) == [kind |-> "number", val |-> n, exc |-> ""]

BoolInt(b) == IF b THEN 1 ELSE 0
Abs(x) == IF x < 0 THEN -x ELSE x
Sign(x) == IF x < 0 THEN -1 ELSE IF x > 0 THEN 1 ELSE 0
InSeq(x, s) == \E i \in 1..Len(s) : s[i] = x
Range(s) == {s[i] : i \in 1..Len(s)}
\* list.index: the first position of x in s (1-based here)
IndexOf(x, s) == CHOOSE i \in 1..Len(s) : s[i] = x /\ \A j \in 1..(i - 1) : s[j] # x
HasAttr(obj, a) == a \in DOMAIN obj

Zeros(n) == [i \in 1..n |-> 0]
WaveAdd(a, b) == [i \in 1..Len(a) |-> a[i] + b[i]]
WaveScale(k, a) == [i \in 1..Len(a) |-> k * a[i]]
WaveShift(t, s) == [i \in 1..Len(t) |-> t[i] - s]
RECURSIVE SumSeq(_)
SumSeq(s) == IF Len(s) = 0 THEN 0 ELSE Head(s) + SumSeq(Tail(s))
IsZero(w) == \A i \in 1..Len(w) : w[i] = 0

\* cos of an angle in degrees that is a multiple of 90
CosDeg(d) ==
  LET m == d % 360
  IN IF m = 0 THEN 1 ELSE IF m = 180 THEN -1 ELSE 0

\* 2 * erf(num / (den * sqrt 2)) rounded to the nearest integer, den > 0:
\* 2*erf(u/sqrt 2) passes 0.5 at u = 0.32 and 1.5 at u = 1.15
Erf2(num, den) ==
  Sign(num) * (IF 100 * Abs(num) < 32 * den THEN 0
               ELSE IF 100 * Abs(num) < 115 * den THEN 1 ELSE 2)

\* 8 * exp(-0.5 * (num / den)^2) rounded to the nearest integer, den > 0
Gauss8(num, den) ==
  LET a == 100 * Abs(num)
  IN IF a < 36 * den THEN 8
     ELSE IF a < 64 * den THEN 7
     ELSE IF a < 87 * den THEN 6
     ELSE IF a < 107 * den THEN 5
     ELSE IF a < 129 * den THEN 4
     ELSE IF a < 153 * den THEN 3
     ELSE IF a < 183 * den THEN 2
     ELSE IF a < 235 * den THEN 1 ELSE 0

\* --------------------------------------------------- pulse.py: class Pulse
\* the keyword arguments Pulse.__init__ pops, with their defaults
DefaultBase ==
  [pulse_off |-> FALSE, truncation_length |-> None,
   truncation_decay_sigma |-> 0, truncation_decay_nr_sigma |-> None,
   nr_points_spline |-> 0]

\* the attributes Pulse.__init__ sets besides the pulse_params
Pulse_init(base) ==
  [pulse_off |-> base.pulse_off,
   truncation_length |-> base.truncation_length,
   truncation_decay_sigma |-> base.truncation_decay_sigma,
   truncation_decay_nr_sigma |-> base.truncation_decay_nr_sigma,
   nr_points_spline |-> base.nr_points_spline,
   crosstalk_cancellation_channels |-> <<>>,
   crosstalk_cancellation_mtx |-> None,
   crosstalk_cancellation_shift_mtx |-> None,
   t0 |-> None]

\* the getter algorithm_time(): the stored _t0, None until it is set
algorithm_time(obj) == obj.t0

\* a variant of truncate_wave whose hard mask drops the sample at exactly
\* tvals[0] + truncation_length (tvals < ... in place of tvals <= ...)
truncate_wave_strict(obj, tvals, wave) ==
  IF ~HasAttr(obj, "truncation_length") \/ obj.truncation_length = None
  THEN Arr(wave)
  ELSE IF obj.truncation_decay_sigma > 0 THEN Raise("ValueError")
  ELSE Arr([i \in 1..Len(wave) |->
         wave[i] * BoolInt(tvals[i] < tvals[1] + obj.truncation_length[1])])

\* truncate_wave: the mask keeps the samples up to tvals[0] + truncation_length;
\* with a decay sigma the tail from the last kept sample on follows
\* amp * 0.5 * (1 - erf((t - offset) / sqrt 2 / sigma)), offset = tvals[0] +
\* truncation_length + sigma * nr_sigma / 2.  nr_points_spline is 0 in every
\* pulse of the model, so the spline bridge (nr_points_spline > 0) is not entered.
truncate_wave(obj, tvals, wave) ==
  LET trunc_len == IF HasAttr(obj, "truncation_length")
                   THEN obj.truncation_length ELSE None
  IN IF trunc_len = None THEN Arr(wave)
     ELSE
       LET L == trunc_len[1]
           mask == [i \in 1..Len(tvals) |-> BoolInt(tvals[i] <= tvals[1] + L)]
           sigma == obj.truncation_decay_sigma
           nr == obj.truncation_decay_nr_sigma
           g == SumSeq(mask)
       IN IF sigma > 0
          THEN IF nr = None THEN Raise("ValueError")
               ELSE Arr([i \in 1..Len(wave) |->
                      IF i < g THEN wave[i]
                      ELSE (wave[g] * (2 - Erf2(2 * (tvals[i] - tvals[1] - L)
                                                  - sigma * nr[1], 2 * sigma)))
                           \div 4])
          ELSE Arr([i \in 1..Len(wave) |-> wave[i] * mask[i]])

\* ------------------------------------------------- pulse_library.py: shapes
Obj(o) == [kind |-> "object", val |-> o, exc |-> ""]
\* the first two hash elements of every shape: type(self), algorithm_time() - tstart
HashHead(obj, tstart) == <<obj.shape, algorithm_time(obj)[1] - tstart>>

\* a hard-edged window: amp where from <= t < to, times as fractions of den
SquareWave(tvals, amp, fromNum, toNum, den) ==
  [i \in 1..Len(tvals) |->
     IF den * (tvals[i] - tvals[1]) >= fromNum /\ den * (tvals[i] - tvals[1]) < toNum
     THEN amp ELSE 0]
\* a Gaussian-filtered window: 0.5 * amp * (erf((t - tstart) * scaling) -
\* erf((t - tend) * scaling)), scaling = 1 / sqrt 2 / sigma
ErfWave(tvals, amp, fromNum, toNum, den, sigma) ==
  [i \in 1..Len(tvals) |->
     (amp * (Erf2(den * (tvals[i] - tvals[1]) - fromNum, den * sigma)
             - Erf2(den * (tvals[i] - tvals[1]) - toNum, den * sigma))) \div 4]

\* ---- SquarePulse
SquarePulseKw ==
  [channel : {"ch1"}, channels : {None, Some(<<"ch1", "ch2">>)},
   amplitude : AmpSet, length : {1, 2}]

SquarePulse_init(kw, base) ==
  IF kw.channel = NoChannel /\ kw.channels = None THEN Raise("ValueError")
  ELSE Obj(Pulse_init(base) @@
           [shape |-> "SquarePulse", pulse_type |-> "SquarePulse",
            channel |-> IF kw.channels = None THEN kw.channel ELSE NoChannel,
            channels |-> IF kw.channels = None THEN <<kw.channel>>
                         ELSE kw.channels[1],
            amplitude |-> kw.amplitude, length |-> kw.length])

SquarePulse_chan_wf(obj, chan, tvals) ==
  Arr([i \in 1..Len(tvals) |-> obj.amplitude])

\* a variant of SquarePulse.hashables without the channel-membership test
SquarePulse_hashables_unguarded(obj, tstart, channel) ==
  IF algorithm_time(obj) = None THEN Raise("TypeError")
  ELSE HashList(HashHead(obj, tstart) \o <<obj.amplitude, obj.length>>)

SquarePulse_hashables(obj, tstart, channel) ==
  IF ~InSeq(channel, obj.channels) THEN HashList(<<>>)
  ELSE IF algorithm_time(obj) = None THEN Raise("TypeError")
  ELSE HashList(HashHead(obj, tstart) \o <<obj.amplitude, obj.length>>)

\* ---- CosPulse
CosPulseKw ==
  [channel : {"ch1"}, amplitude : AmpSet, length : {2}, frequency : {0, 1},
   phase : PhaseSet]

CosPulse_init(kw, base) ==
  Obj(Pulse_init(base) @@
      [shape |-> "CosPulse", pulse_type |-> "CosPulse", channel |-> kw.channel,
       channels |-> <<kw.channel>>, amplitude |-> kw.amplitude,
       length |-> kw.length, frequency |-> kw.frequency, phase |-> kw.phase])

CosPulse_chan_wf(obj, chan, tvals) ==
  Arr([i \in 1..Len(tvals) |->
         obj.amplitude * CosDeg(90 * obj.frequency * tvals[i] + obj.phase)])

CosPulse_hashables(obj, tstart, channel) ==
  IF ~InSeq(channel, obj.channels) THEN HashList(<<>>)
  ELSE IF algorithm_time(obj) = None THEN Raise("TypeError")
  ELSE HashList(HashHead(obj, tstart) \o
                <<obj.amplitude, obj.length, obj.frequency,
                  (obj.phase + 90 * obj.frequency * tstart) % 360>>)

\* ---- BufferedSquarePulse
BufferedSquarePulseKw ==
  [channel : {"ch1"}, channels : {None}, amplitude : AmpSet,
   pulse_length : {1, 2}, buffer_length_start : {0, 1},
   buffer_length_end : {0, 1}, gaussian_filter_sigma : {0, 1}]

BufferedSquarePulse_init(kw, base) ==
  IF kw.channel = NoChannel /\ kw.channels = None THEN Raise("ValueError")
  ELSE Obj(Pulse_init(base) @@
           [shape |-> "BufferedSquarePulse",
            pulse_type |-> "BufferedSquarePulse",
            channel |-> NoChannel,
            channels |-> IF kw.channels = None THEN <<kw.channel>>
                         ELSE kw.channels[1],
            amplitude |-> kw.amplitude, pulse_length |-> kw.pulse_length,
            buffer_length_start |-> kw.buffer_length_start,
            buffer_length_end |-> kw.buffer_length_end,
            gaussian_filter_sigma |-> kw.gaussian_filter_sigma,
            length |-> kw.pulse_length + kw.buffer_length_start
                       + kw.buffer_length_end])

\* a variant of chan_wf whose window also holds the sample at exactly
\* buffer_length_start + pulse_length
BufferedSquarePulse_chan_wf_inclusive(obj, chan, tvals) ==
  IF obj.gaussian_filter_sigma = 0
  THEN Arr(SquareWave(tvals, obj.amplitude, obj.buffer_length_start,
                      obj.buffer_length_start + obj.pulse_length + 1, 1))
  ELSE Arr(ErfWave(tvals, obj.amplitude, obj.buffer_length_start,
                   obj.buffer_length_start + obj.pulse_length, 1,
                   obj.gaussian_filter_sigma))

BufferedSquarePulse_chan_wf(obj, chan, tvals) ==
  IF obj.gaussian_filter_sigma = 0
  THEN Arr(SquareWave(tvals, obj.amplitude, obj.buffer_length_start,
                      obj.buffer_length_start + obj.pulse_length, 1))
  ELSE Arr(ErfWave(tvals, obj.amplitude, obj.buffer_length_start,
                   obj.buffer_length_start + obj.pulse_length, 1,
                   obj.gaussian_filter_sigma))

BufferedSquarePulse_hashables(obj, tstart, channel) ==
  IF ~InSeq(channel, obj.channels) THEN HashList(<<>>)
  ELSE IF algorithm_time(obj) = None THEN Raise("TypeError")
  ELSE HashList(HashHead(obj, tstart) \o
                <<obj.amplitude, obj.pulse_length, obj.buffer_length_start,
                  obj.buffer_length_end, obj.gaussian_filter_sigma>>)

\* ---- auxiliary channels: aux_channels_dict is None or a dict channel -> number
NoAux == [has |-> FALSE, d |-> <<>>]
Aux(c, v) == [has |-> TRUE, d |-> <<<<c, v>>>>]
AuxKeys(aux) == [i \in 1..Len(aux.d) |-> aux.d[i][1]]
\* aux_channels_dict[chan]: TypeError on None, KeyError on a missing key
AuxGet(aux, chan) ==
  IF ~aux.has THEN Raise("TypeError")
  ELSE IF ~InSeq(chan, AuxKeys(aux)) THEN Raise("KeyError")
  ELSE Number(aux.d[IndexOf(chan, AuxKeys(aux))][2])
\* self.channels = [self.channel] + list(self.aux_channels_dict)
AuxChannels(channel, aux) == <<channel>> \o (IF aux.has THEN AuxKeys(aux) ELSE <<>>)

\* ---- BufferedCZPulse
BufferedCZPulseKw ==
  [channel : {"ch1"}, aux_channels_dict : {NoAux, Aux("ch2", 16)},
   amplitude : AmpSet, frequency : {0, 1}, phase : PhaseSet,
   pulse_length : {2}, buffer_length_start : {1}, buffer_length_end : {0},
   extra_buffer_aux_pulse : {1}, gaussian_filter_sigma : {0, 1}]

BufferedCZPulse_init(kw, base) ==
  Obj(Pulse_init(base) @@
      [shape |-> "BufferedCZPulse", pulse_type |-> "BufferedCZPulse",
       channel |-> kw.channel, aux_channels_dict |-> kw.aux_channels_dict,
       channels |-> AuxChannels(kw.channel, kw.aux_channels_dict),
       amplitude |-> kw.amplitude, frequency |-> kw.frequency,
       phase |-> kw.phase, pulse_length |-> kw.pulse_length,
       buffer_length_start |-> kw.buffer_length_start,
       buffer_length_end |-> kw.buffer_length_end,
       extra_buffer_aux_pulse |-> kw.extra_buffer_aux_pulse,
       gaussian_filter_sigma |-> kw.gaussian_filter_sigma,
       length |-> kw.pulse_length + kw.buffer_length_start
                  + kw.buffer_length_end])

BufferedCZPulse_chan_wf(obj, chan, tvals) ==
  LET main == chan = obj.channel
      a == IF main THEN Number(obj.amplitude)
           ELSE AuxGet(obj.aux_channels_dict, chan)
      buffer_start == IF main THEN obj.buffer_length_start
                      ELSE obj.buffer_length_start - obj.extra_buffer_aux_pulse
      pulse_length == IF main THEN obj.pulse_length
                      ELSE obj.pulse_length + 2 * obj.extra_buffer_aux_pulse
  IN IF a.kind = "raise" THEN a
     ELSE
       LET wave == IF obj.gaussian_filter_sigma = 0
                   THEN SquareWave(tvals, a.val, buffer_start,
                                   buffer_start + pulse_length, 1)
                   ELSE ErfWave(tvals, a.val, buffer_start,
                                buffer_start + pulse_length, 1,
                                obj.gaussian_filter_sigma)
       IN Arr([i \in 1..Len(tvals) |->
                 wave[i] * CosDeg(90 * obj.frequency * (tvals[i] - tvals[1])
                                  + obj.phase)])

BufferedCZPulse_hashables(obj, tstart, channel) ==
  IF ~InSeq(channel, obj.channels) THEN HashList(<<>>)
  ELSE IF algorithm_time(obj) = None THEN Raise("TypeError")
  ELSE
    LET main == channel = obj.channel
        a == IF main THEN Number(obj.amplitude)
             ELSE AuxGet(obj.aux_channels_dict, channel)
        extra == IF main THEN 0 ELSE obj.extra_buffer_aux_pulse
    IN IF a.kind = "raise" THEN a
       ELSE HashList(HashHead(obj, tstart) \o
                     <<a.val, obj.pulse_length + 2 * extra,
                       obj.buffer_length_start - extra,
                       obj.buffer_length_end - extra,
                       obj.gaussian_filter_sigma, obj.frequency,
                       obj.phase % 360>>)

\* ---- NZBufferedCZPulse
NZBufferedCZPulseKw ==
  [channel : {"ch1"}, aux_channels_dict : {NoAux, Aux("ch2", 1), Aux("ch2", 2)},
   amplitude : AmpSet, alpha : {1, 2}, pulse_length : {2, 3},
   buffer_length_start : {1}, buffer_length_end : {1},
   extra_buffer_aux_pulse : {0, 1}, gaussian_filter_sigma : {0, 1}]

\* length1 = alpha * pulse_length / (alpha + 1), kept as the fraction num / den
NZBufferedCZPulse_init(kw, base) ==
  IF kw.alpha + 1 = 0 THEN Raise("ZeroDivisionError")
  ELSE
  Obj(Pulse_init(base) @@
      [shape |-> "NZBufferedCZPulse", pulse_type |-> "NZBufferedCZPulse",
       channel |-> kw.channel, aux_channels_dict |-> kw.aux_channels_dict,
       channels |-> AuxChannels(kw.channel, kw.aux_channels_dict),
       amplitude |-> kw.amplitude, alpha |-> kw.alpha,
       frequency |-> 0, phase |-> 0,
       pulse_length |-> kw.pulse_length,
       buffer_length_start |-> kw.buffer_length_start,
       buffer_length_end |-> kw.buffer_length_end,
       extra_buffer_aux_pulse |-> kw.extra_buffer_aux_pulse,
       gaussian_filter_sigma |-> kw.gaussian_filter_sigma,
       length1 |-> [num |-> kw.alpha * kw.pulse_length, den |-> kw.alpha + 1],
       length |-> kw.pulse_length + kw.buffer_length_start
                  + kw.buffer_length_end])

NZBufferedCZPulse_chan_wf(obj, chan, tvals) ==
  LET main == chan = obj.channel
      f == IF main THEN Number(1) ELSE AuxGet(obj.aux_channels_dict, chan)
  IN IF f.kind = "raise" THEN f
     ELSE IF ~main /\ obj.alpha + 1 = 0 THEN Raise("ZeroDivisionError")
     ELSE
       LET amp1 == f.val * obj.amplitude
           amp2 == -amp1 * obj.alpha
           buffer_start == IF main THEN obj.buffer_length_start
                           ELSE obj.buffer_length_start
                                - obj.extra_buffer_aux_pulse
           pulse_length == IF main THEN obj.pulse_length
                           ELSE obj.pulse_length
                                + 2 * obj.extra_buffer_aux_pulse
           den == IF main THEN obj.length1.den ELSE obj.alpha + 1
           l1 == IF main THEN obj.length1.num ELSE obj.alpha * pulse_length
           t1 == den * buffer_start
           t2 == den * buffer_start + l1
           t3 == den * (buffer_start + pulse_length)
       IN IF obj.gaussian_filter_sigma = 0
          THEN Arr(WaveAdd(SquareWave(tvals, amp1, t1, t2, den),
                           SquareWave(tvals, amp2, t2, t3, den)))
          ELSE Arr(WaveAdd(
                 ErfWave(tvals, amp1, t1, t2, den, obj.gaussian_filter_sigma),
                 ErfWave(tvals, amp2, t2, t3, den, obj.gaussian_filter_sigma)))

NZBufferedCZPulse_hashables(obj, tstart, channel) ==
  IF ~InSeq(channel, obj.channels) THEN HashList(<<>>)
  ELSE IF algorithm_time(obj) = None THEN Raise("TypeError")
  ELSE
    LET main == channel = obj.channel
        a == IF main THEN Number(obj.amplitude)
             ELSE AuxGet(obj.aux_channels_dict, channel)
        extra == IF main THEN 0 ELSE obj.extra_buffer_aux_pulse
    IN IF a.kind = "raise" THEN a
       ELSE HashList(HashHead(obj, tstart) \o
                     <<a.val, obj.pulse_length + 2 * extra,
                       obj.buffer_length_start - extra,
                       obj.buffer_length_end - extra,
                       obj.gaussian_filter_sigma, obj.alpha>>)

\* ---- dict attributes keyed by channel
Dict2(c1, v1, c2, v2) == [c \in {c1, c2} |-> IF c = c2 THEN v2 ELSE v1]
HasKey(d, c) == c \in DOMAIN d

\* ---- BufferedNZFLIPPulse
BufferedNZFLIPPulseKw ==
  [channel : {"ch1"}, channel2 : {"ch2"}, amplitude : {16}, amplitude2 : {32},
   alpha : {1, 2}, pulse_length : {2}, buffer_length_start : {1},
   buffer_length_end : {1}, flux_buffer_length : {0, 1},
   flux_buffer_length2 : {0, 1}, channel_relative_delay : {-1, 0, 1},
   gaussian_filter_sigma : {0, 1}]

\* length1, length2 and length are fractions over den = alpha + 1
BufferedNZFLIPPulse_init(kw, base) ==
  IF kw.alpha + 1 = 0 THEN Raise("ZeroDivisionError")
  ELSE
  LET channel == kw.channel
      channel2 == kw.channel2
      flux_buffer == Dict2(channel, kw.flux_buffer_length2,
                           channel2, kw.flux_buffer_length)
      den == kw.alpha + 1
      length1 == Dict2(channel, kw.alpha * kw.pulse_length
                                + 2 * flux_buffer[channel2] * den,
                       channel2, kw.alpha * kw.pulse_length
                                 + 2 * flux_buffer[channel] * den)
      length2 == Dict2(channel, kw.pulse_length
                                + 2 * flux_buffer[channel2] * den,
                       channel2, kw.pulse_length
                                 + 2 * flux_buffer[channel] * den)
      delay == kw.channel_relative_delay
      bls == kw.buffer_length_start
      ble == kw.buffer_length_end
      buffer_length_start ==
        IF delay < 0
        THEN Dict2(channel, bls - delay + flux_buffer[channel],
                   channel2, bls + flux_buffer[channel2])
        ELSE Dict2(channel, bls + flux_buffer[channel],
                   channel2, bls + delay + flux_buffer[channel2])
      buffer_length_end ==
        IF delay < 0
        THEN Dict2(channel, ble + flux_buffer[channel],
                   channel2, ble - delay + flux_buffer[channel2])
        ELSE Dict2(channel, ble + delay + flux_buffer[channel],
                   channel2, ble + flux_buffer[channel2])
  IN Obj(Pulse_init(base) @@
         [shape |-> "BufferedNZFLIPPulse", pulse_type |-> "BufferedNZFLIPPulse",
          channel |-> channel, channel2 |-> channel2,
          channels |-> <<channel, channel2>>,
          amplitude |-> kw.amplitude, amplitude2 |-> kw.amplitude2,
          alpha |-> kw.alpha, pulse_length |-> kw.pulse_length,
          flux_buffer_length |-> kw.flux_buffer_length,
          flux_buffer_length2 |-> kw.flux_buffer_length2,
          channel_relative_delay |-> kw.channel_relative_delay,
          gaussian_filter_sigma |-> kw.gaussian_filter_sigma,
          flux_buffer |-> flux_buffer,
          amps |-> Dict2(channel, kw.amplitude, channel2, kw.amplitude2),
          alphas |-> Dict2(channel, kw.alpha, channel2, kw.alpha),
          den |-> den, length1 |-> length1, length2 |-> length2,
          buffer_length_start |-> buffer_length_start,
          buffer_length_end |-> buffer_length_end,
          length |-> [num |-> length1[channel] + length2[channel]
                              + den * (buffer_length_start[channel]
                                       + buffer_length_end[channel]
                                       + 2 * flux_buffer[channel]),
                      den |-> den]])

BufferedNZFLIPPulse_chan_wf(obj, chan, tvals) ==
  IF ~HasKey(obj.amps, chan) THEN Raise("KeyError")
  ELSE
    LET amp1 == obj.amps[chan]
        amp2 == -amp1 * obj.alphas[chan]
        den == obj.den
        t1 == den * obj.buffer_length_start[chan]
        t2 == t1 + obj.length1[chan]
        t3 == t2 + 2 * den * obj.flux_buffer[chan]
        t4 == t3 + obj.length2[chan]
    IN IF obj.gaussian_filter_sigma = 0
       THEN Arr(WaveAdd(SquareWave(tvals, amp1, t1, t2, den),
                        SquareWave(tvals, amp2, t3, t4, den)))
       ELSE Arr(WaveAdd(
              ErfWave(tvals, amp1, t1, t2, den, obj.gaussian_filter_sigma),
              ErfWave(tvals, amp2, t3, t4, den, obj.gaussian_filter_sigma)))

BufferedNZFLIPPulse_hashables(obj, tstart, channel) ==
  IF ~InSeq(channel, obj.channels) THEN HashList(<<>>)
  ELSE IF algorithm_time(obj) = None THEN Raise("TypeError")
  ELSE HashList(HashHead(obj, tstart) \o
                <<obj.amps[channel], obj.pulse_length,
                  obj.buffer_length_start[channel],
                  obj.buffer_length_end[channel],
                  obj.gaussian_filter_sigma, obj.alphas[channel]>>)

\* ---- BufferedFLIPPulse
BufferedFLIPPulseKw ==
  [channel : {"ch1"}, channel2 : {"ch2"}, amplitude : AmpSet,
   amplitude2 : {32}, pulse_length : {2}, buffer_length_start : {1},
   buffer_length_end : {1}, flux_buffer_length : {0, 1},
   flux_buffer_length2 : {0, 1}, channel_relative_delay : {-1, 0, 1},
   gaussian_filter_sigma : {0, 1}]

\* a variant of the constructor that adds the delay to channel2's start and
\* to channel's end whatever its sign
BufferedFLIPPulse_init_unsigned(kw, base) ==
  LET channel == kw.channel
      channel2 == kw.channel2
      delay == kw.channel_relative_delay
      bls == kw.buffer_length_start
      ble == kw.buffer_length_end
      length1 == Dict2(channel, kw.pulse_length + 2 * kw.flux_buffer_length,
                       channel2, kw.pulse_length + 2 * kw.flux_buffer_length2)
      buffer_length_start ==
        Dict2(channel, bls + kw.flux_buffer_length2,
                   channel2, bls + delay + kw.flux_buffer_length)
      buffer_length_end ==
        Dict2(channel, ble + delay + kw.flux_buffer_length2,
                   channel2, ble + kw.flux_buffer_length)
  IN Obj(Pulse_init(base) @@
         [shape |-> "BufferedFLIPPulse", pulse_type |-> "BufferedFLIPPulse",
          channel |-> channel, channel2 |-> channel2,
          channels |-> <<channel, channel2>>,
          amplitude |-> kw.amplitude, amplitude2 |-> kw.amplitude2,
          pulse_length |-> kw.pulse_length,
          flux_buffer_length |-> kw.flux_buffer_length,
          flux_buffer_length2 |-> kw.flux_buffer_length2,
          channel_relative_delay |-> kw.channel_relative_delay,
          gaussian_filter_sigma |-> kw.gaussian_filter_sigma,
          amps |-> Dict2(channel, kw.amplitude, channel2, kw.amplitude2),
          length1 |-> length1,
          buffer_length_start |-> buffer_length_start,
          buffer_length_end |-> buffer_length_end,
          length |-> length1[channel] + buffer_length_start[channel]
                     + buffer_length_end[channel]
                     + 2 * kw.flux_buffer_length2])

BufferedFLIPPulse_init(kw, base) ==
  LET channel == kw.channel
      channel2 == kw.channel2
      delay == kw.channel_relative_delay
      bls == kw.buffer_length_start
      ble == kw.buffer_length_end
      length1 == Dict2(channel, kw.pulse_length + 2 * kw.flux_buffer_length,
                       channel2, kw.pulse_length + 2 * kw.flux_buffer_length2)
      buffer_length_start ==
        IF delay < 0
        THEN Dict2(channel, bls - delay + kw.flux_buffer_length2,
                   channel2, bls + kw.flux_buffer_length)
        ELSE Dict2(channel, bls + kw.flux_buffer_length2,
                   channel2, bls + delay + kw.flux_buffer_length)
      buffer_length_end ==
        IF delay < 0
        THEN Dict2(channel, ble + kw.flux_buffer_length2,
                   channel2, ble - delay + kw.flux_buffer_length)
        ELSE Dict2(channel, ble + delay + kw.flux_buffer_length2,
                   channel2, ble + kw.flux_buffer_length)
  IN Obj(Pulse_init(base) @@
         [shape |-> "BufferedFLIPPulse", pulse_type |-> "BufferedFLIPPulse",
          channel |-> channel, channel2 |-> channel2,
          channels |-> <<channel, channel2>>,
          amplitude |-> kw.amplitude, amplitude2 |-> kw.amplitude2,
          pulse_length |-> kw.pulse_length,
          flux_buffer_length |-> kw.flux_buffer_length,
          flux_buffer_length2 |-> kw.flux_buffer_length2,
          channel_relative_delay |-> kw.channel_relative_delay,
          gaussian_filter_sigma |-> kw.gaussian_filter_sigma,
          amps |-> Dict2(channel, kw.amplitude, channel2, kw.amplitude2),
          length1 |-> length1,
          buffer_length_start |-> buffer_length_start,
          buffer_length_end |-> buffer_length_end,
          length |-> length1[channel] + buffer_length_start[channel]
                     + buffer_length_end[channel]
                     + 2 * kw.flux_buffer_length2])

BufferedFLIPPulse_chan_wf(obj, chan, tvals) ==
  IF ~HasKey(obj.amps, chan) THEN Raise("KeyError")
  ELSE
    LET amp == obj.amps[chan]
        buffer_start == obj.buffer_length_start[chan]
        l1 == obj.length1[chan]
    IN IF obj.gaussian_filter_sigma = 0
       THEN Arr(SquareWave(tvals, amp, buffer_start, buffer_start + l1, 1))
       ELSE Arr(ErfWave(tvals, amp, buffer_start, buffer_start + l1, 1,
                        obj.gaussian_filter_sigma))

BufferedFLIPPulse_hashables(obj, tstart, channel) ==
  IF ~InSeq(channel, obj.channels) THEN HashList(<<>>)
  ELSE IF algorithm_time(obj) = None THEN Raise("TypeError")
  ELSE HashList(HashHead(obj, tstart) \o
                <<obj.amps[channel], obj.pulse_length,
                  obj.buffer_length_start[channel],
                  obj.buffer_length_end[channel],
                  obj.gaussian_filter_sigma>>)

\* ---- NZMartinisGellarPulse
\* wave_generation_func is a callable the caller injects; the model draws it
\* from two callables, named by their hash(): 1 is a window of height
\* dv_dphi * theta_f over the pulse, 2 a constant of height dv_dphi * alpha
WaveGenFuncs == {1, 2}
wave_generation_func(fid, tvals, params_dict) ==
  IF fid = 1
  THEN SquareWave(tvals, params_dict.dv_dphi * params_dict.theta_f,
                  params_dict.buffer_length_start,
                  params_dict.buffer_length_start + params_dict.pulse_length, 1)
  ELSE [i \in 1..Len(tvals) |-> params_dict.dv_dphi * params_dict.alpha]

NZMartinisGellarPulseKw ==
  [channel : {"ch1"},
   aux_channels_dict : {NoAux, Aux("ch2", 1), Aux("ch2", 2)},
   wave_generation_func : WaveGenFuncs, theta_f : {1}, alpha : {1},
   pulse_length : {2}, buffer_length_start : {0, 1}, buffer_length_end : {0},
   extra_buffer_aux_pulse : {0}, qbc_freq : {0}, qbt_freq : {0},
   anharmonicity : {0}, J : {0}, loop_asym : {0}, dv_dphi : AmpSet,
   lambda_2 : {0}]

NZMartinisGellarPulse_init(kw, base) ==
  Obj(Pulse_init(base) @@
      [shape |-> "NZMartinisGellarPulse",
       pulse_type |-> "NZMartinisGellarPulse",
       channel |-> kw.channel, aux_channels_dict |-> kw.aux_channels_dict,
       channels |-> AuxChannels(kw.channel, kw.aux_channels_dict),
       theta_f |-> kw.theta_f, alpha |-> kw.alpha,
       pulse_length |-> kw.pulse_length,
       buffer_length_start |-> kw.buffer_length_start,
       buffer_length_end |-> kw.buffer_length_end,
       extra_buffer_aux_pulse |-> kw.extra_buffer_aux_pulse,
       wave_generation_func |-> kw.wave_generation_func,
       qbc_freq |-> kw.qbc_freq, qbt_freq |-> kw.qbt_freq,
       anharmonicity |-> kw.anharmonicity, J |-> kw.J,
       loop_asym |-> kw.loop_asym, dv_dphi |-> kw.dv_dphi,
       lambda_2 |-> kw.lambda_2,
       length |-> kw.pulse_length + kw.buffer_length_start
                  + kw.buffer_length_end])

NZMartinisGellarPulse_chan_wf(obj, chan, tvals) ==
  LET f == IF chan # obj.channel THEN AuxGet(obj.aux_channels_dict, chan)
           ELSE Number(1)
  IN IF f.kind = "raise" THEN f
     ELSE Arr(wave_generation_func(obj.wave_generation_func, tvals,
            [pulse_length |-> obj.pulse_length, theta_f |-> obj.theta_f,
             qbc_freq |-> obj.qbc_freq, qbt_freq |-> obj.qbt_freq,
             anharmonicity |-> obj.anharmonicity, J |-> obj.J,
             dv_dphi |-> obj.dv_dphi * f.val, loop_asym |-> obj.loop_asym,
             lambda_2 |-> obj.lambda_2, alpha |-> obj.alpha,
             buffer_length_start |-> obj.buffer_length_start]))

NZMartinisGellarPulse_hashables(obj, tstart, channel) ==
  IF ~InSeq(channel, obj.channels) THEN HashList(<<>>)
  ELSE IF algorithm_time(obj) = None THEN Raise("TypeError")
  ELSE HashList(HashHead(obj, tstart) \o
                <<obj.pulse_length, obj.theta_f, obj.qbc_freq, obj.qbt_freq,
                  obj.anharmonicity, obj.J, obj.dv_dphi, obj.loop_asym,
                  obj.lambda_2, obj.alpha, obj.buffer_length_start,
                  obj.wave_generation_func>>)

\* ---- apply_modulation
\* k = sqrt(|alpha / cos(phi_skew)|): exact where |alpha / cos| is a square
ISqrt(n) == CHOOSE k \in 0..n : k * k = n
\* phi = 360 * mod_frequency * (tvals - tval_phaseref) + phase; the pair of
\* the modulated outputs <<imod, qmod>>; sin(x) is cos(x - 90)
apply_modulation(ienv, qenv, tvals, mod_frequency, phase, phi_skew, alpha, tval_phaseref) ==
  LET phi(i) == 90 * mod_frequency * (tvals[i] - tval_phaseref) + phase
      phii(i) == phi(i) + phi_skew
      phiq(i) == phi(i) + 90
      k == ISqrt(Abs(alpha) \div Abs(CosDeg(phi_skew)))
  IN << [i \in 1..Len(tvals) |->
           k * (ienv[i] * CosDeg(phii(i)) + qenv[i] * CosDeg(phii(i) - 90))],
        [i \in 1..Len(tvals) |->
           (k * (ienv[i] * CosDeg(phiq(i)) + qenv[i] * CosDeg(phiq(i) - 90)))
           \div alpha] >>

\* ---- SSB_DRAG_pulse
SSB_DRAG_pulseKw ==
  [I_channel : {"ch1"}, Q_channel : {"ch2"}, amplitude : {16}, sigma : {1},
   nr_sigma : {2, 4}, motzoi : {0, 1}, mod_frequency : {0, 1},
   phase : PhaseSet, alpha : {1}, phi_skew : {0}, phaselock : BOOLEAN]

SSB_DRAG_pulse_init(kw, base) ==
  Obj(Pulse_init(base) @@
      [shape |-> "SSB_DRAG_pulse", pulse_type |-> "SSB_DRAG_pulse",
       I_channel |-> kw.I_channel, Q_channel |-> kw.Q_channel,
       amplitude |-> kw.amplitude, sigma |-> kw.sigma,
       nr_sigma |-> kw.nr_sigma, motzoi |-> kw.motzoi,
       mod_frequency |-> kw.mod_frequency, phase |-> kw.phase,
       alpha |-> kw.alpha, phi_skew |-> kw.phi_skew,
       phaselock |-> kw.phaselock])

\* the channels property: [c for c in [I_channel, Q_channel] if c is not None]
SSB_DRAG_pulse_channels(obj) ==
  (IF obj.I_channel # NoChannel THEN <<obj.I_channel>> ELSE <<>>) \o
  (IF obj.Q_channel # NoChannel THEN <<obj.Q_channel>> ELSE <<>>)

\* the envelope amplitude * (exp(-0.5 (t - tc)^2 / sigma^2) - exp(-0.5 half^2 /
\* sigma^2)) on [tc - half, tc + half), with exp tabulated in eighths
SSB_DRAG_pulse_chan_wf(obj, channel, tvals) ==
  IF algorithm_time(obj) = None THEN Raise("TypeError")
  ELSE
    LET half == (obj.nr_sigma * obj.sigma) \div 2
        tc == algorithm_time(obj)[1] + half
        gauss_env == [i \in 1..Len(tvals) |->
           IF tvals[i] - tc >= -half /\ tvals[i] - tc < half
           THEN (obj.amplitude * (Gauss8(tvals[i] - tc, obj.sigma)
                                  - Gauss8(half, obj.sigma))) \div 8
           ELSE 0]
        deriv_gauss_env == [i \in 1..Len(tvals) |->
           (-obj.motzoi * (tvals[i] - tc) * gauss_env[i]) \div obj.sigma]
        mod == apply_modulation(gauss_env, deriv_gauss_env, tvals,
                 obj.mod_frequency, obj.phase, obj.phi_skew, obj.alpha,
                 IF obj.phaselock THEN 0 ELSE tc)
    IN IF channel = obj.I_channel THEN Arr(mod[1])
       ELSE IF channel = obj.Q_channel THEN Arr(mod[2])
       ELSE Arr(Zeros(Len(tvals)))

SSB_DRAG_pulse_hashables(obj, tstart, channel) ==
  IF ~InSeq(channel, SSB_DRAG_pulse_channels(obj)) THEN HashList(<<>>)
  ELSE IF algorithm_time(obj) = None THEN Raise("TypeError")
  ELSE HashList(HashHead(obj, tstart) \o
         <<BoolInt(channel = obj.I_channel), obj.amplitude, obj.sigma,
           obj.nr_sigma, obj.motzoi, obj.mod_frequency, obj.alpha,
           obj.phi_skew,
           obj.phase + 90 * BoolInt(obj.phaselock) * obj.mod_frequency
             * (algorithm_time(obj)[1] + (obj.nr_sigma * obj.sigma) \div 2)>>)

\* ---- GaussFilteredCosIQPulse
GaussFilteredCosIQPulseKw ==
  [I_channel : {"ch1"}, Q_channel : {"ch2"}, amplitude : {16},
   pulse_length : {2}, mod_frequency : {0, 1}, phase : PhaseSet,
   nr_sigma : {5}, alpha : {1}, phi_skew : {0},
   gaussian_filter_sigma : {0, 1}, phase_lock : BOOLEAN]

GaussFilteredCosIQPulse_init(kw, base) ==
  Obj(Pulse_init(base) @@
      [shape |-> "GaussFilteredCosIQPulse",
       pulse_type |-> "GaussFilteredCosIQPulse",
       I_channel |-> kw.I_channel, Q_channel |-> kw.Q_channel,
       channels |-> <<kw.I_channel, kw.Q_channel>>,
       amplitude |-> kw.amplitude, pulse_length |-> kw.pulse_length,
       mod_frequency |-> kw.mod_frequency, phase |-> kw.phase,
       nr_sigma |-> kw.nr_sigma, alpha |-> kw.alpha,
       phi_skew |-> kw.phi_skew,
       gaussian_filter_sigma |-> kw.gaussian_filter_sigma,
       phase_lock |-> kw.phase_lock,
       length |-> [num |-> 2 * kw.pulse_length
                           + kw.gaussian_filter_sigma * kw.nr_sigma,
                   den |-> 2]])

\* the envelope shared by the two cosine IQ shapes: a window of pulse_length
\* from tvals[0] (sigma = 0) or from tvals[0] + 0.5 * sigma * nr_sigma
CosIQEnvelope(obj, a, tvals) ==
  IF obj.gaussian_filter_sigma = 0
  THEN SquareWave(tvals, a, 0, obj.pulse_length, 1)
  ELSE ErfWave(tvals, a, obj.gaussian_filter_sigma * obj.nr_sigma,
               obj.gaussian_filter_sigma * obj.nr_sigma + 2 * obj.pulse_length,
               2, obj.gaussian_filter_sigma)

GaussFilteredCosIQPulse_chan_wf(obj, chan, tvals) ==
  IF ~obj.phase_lock /\ algorithm_time(obj) = None THEN Raise("TypeError")
  ELSE
    LET wave == CosIQEnvelope(obj, obj.amplitude, tvals)
        mod == apply_modulation(wave, Zeros(Len(wave)), tvals,
                 obj.mod_frequency, obj.phase, obj.phi_skew, obj.alpha,
                 IF obj.phase_lock THEN 0 ELSE algorithm_time(obj)[1])
    IN IF chan = obj.I_channel THEN Arr(mod[1])
       ELSE IF chan = obj.Q_channel THEN Arr(mod[2])
       ELSE PyNone

GaussFilteredCosIQPulse_hashables(obj, tstart, channel) ==
  IF ~InSeq(channel, obj.channels) THEN HashList(<<>>)
  ELSE IF algorithm_time(obj) = None THEN Raise("TypeError")
  ELSE HashList(HashHead(obj, tstart) \o
         <<BoolInt(channel = obj.I_channel), obj.amplitude, obj.mod_frequency,
           obj.gaussian_filter_sigma, obj.nr_sigma, obj.pulse_length,
           obj.alpha, obj.phi_skew,
           obj.phase + 90 * BoolInt(~obj.phase_lock) * obj.mod_frequency
             * algorithm_time(obj)[1]>>)

\* ---- GaussFilteredCosIQPulseMultiChromatic
GaussFilteredCosIQPulseMultiChromaticKw ==
  [I_channel : {"ch1"}, Q_channel : {"ch2"}, amplitude : {16},
   pulse_length : {2}, mod_frequency : {<<0>>, <<1>>, <<0, 1>>},
   phase : {0, 90}, nr_sigma : {5}, alpha : {1}, phi_skew : {0},
   gaussian_filter_sigma : {0, 1}, phase_lock : BOOLEAN]

\* scalar amplitude, phase, phi_skew and alpha become one entry per frequency
GaussFilteredCosIQPulseMultiChromatic_init(kw, base) ==
  LET n == Len(kw.mod_frequency)
  IN Obj(Pulse_init(base) @@
      [shape |-> "GaussFilteredCosIQPulseMultiChromatic",
       pulse_type |-> "GaussFilteredCosIQPulseMultiChromatic",
       I_channel |-> kw.I_channel, Q_channel |-> kw.Q_channel,
       channels |-> <<kw.I_channel, kw.Q_channel>>,
       amplitude |-> [i \in 1..n |-> kw.amplitude],
       pulse_length |-> kw.pulse_length,
       mod_frequency |-> kw.mod_frequency,
       phase |-> [i \in 1..n |-> kw.phase],
       nr_sigma |-> kw.nr_sigma,
       alpha |-> [i \in 1..n |-> kw.alpha],
       phi_skew |-> [i \in 1..n |-> kw.phi_skew],
       gaussian_filter_sigma |-> kw.gaussian_filter_sigma,
       phase_lock |-> kw.phase_lock,
       length |-> [num |-> 2 * kw.pulse_length
                           + kw.gaussian_filter_sigma * kw.nr_sigma,
                   den |-> 2]])

RECURSIVE MultiChromaticSum(_, _, _, _)
MultiChromaticSum(obj, tvals, n, which) ==
  IF n = 0 THEN Zeros(Len(tvals))
  ELSE
    LET wave == CosIQEnvelope(obj, obj.amplitude[n], tvals)
        mod == apply_modulation(wave, Zeros(Len(wave)), tvals,
                 obj.mod_frequency[n], obj.phase[n], obj.phi_skew[n],
                 obj.alpha[n],
                 IF obj.phase_lock THEN 0 ELSE algorithm_time(obj)[1])
    IN WaveAdd(MultiChromaticSum(obj, tvals, n - 1, which), mod[which])

GaussFilteredCosIQPulseMultiChromatic_chan_wf(obj, chan, tvals) ==
  IF Len(obj.mod_frequency) > 0 /\ ~obj.phase_lock
     /\ algorithm_time(obj) = None
  THEN Raise("TypeError")
  ELSE IF chan = obj.I_channel
       THEN Arr(MultiChromaticSum(obj, tvals, Len(obj.mod_frequency), 1))
       ELSE IF chan = obj.Q_channel
       THEN Arr(MultiChromaticSum(obj, tvals, Len(obj.mod_frequency), 2))
       ELSE PyNone

GaussFilteredCosIQPulseMultiChromatic_hashables(obj, tstart, channel) ==
  IF ~InSeq(channel, obj.channels) THEN HashList(<<>>)
  ELSE IF algorithm_time(obj) = None THEN Raise("TypeError")
  ELSE HashList(HashHead(obj, tstart) \o
         <<BoolInt(channel = obj.I_channel)>> \o obj.amplitude \o
         obj.mod_frequency \o
         <<obj.gaussian_filter_sigma, obj.nr_sigma, obj.pulse_length>> \o
         obj.alpha \o obj.phi_skew \o
         [i \in 1..Len(obj.mod_frequency) |->
            obj.phase[i] + 90 * BoolInt(~obj.phase_lock)
              * obj.mod_frequency[i] * algorithm_time(obj)[1]])

\* ---- VirtualPulse
VirtualPulseKw == [pulse_length : {0, 1}]

VirtualPulse_init(kw, base) ==
  Obj(Pulse_init(base) @@
      [shape |-> "VirtualPulse", pulse_type |-> "VirtualPulse",
       pulse_length |-> kw.pulse_length, length |-> kw.pulse_length,
       channels |-> <<>>])

VirtualPulse_chan_wf(obj, chan, tvals) == EmptyDict

VirtualPulse_hashables(obj, tstart, channel) == HashList(<<>>)

\* ---- GaussianFilteredPiecewiseConstPulse
\* Segment lengths are fractions over the object's den (1 unless the
\* constructor of NZTransitionControlledPulse divides); lengths holds their
\* numerators.  __init__ does not call Pulse.__init__: the object has none
\* of the attributes Pulse_init sets except _t0.
RECURSIVE GCD(_, _)
GCD(a, b) == IF b = 0 THEN a ELSE GCD(b, a % b)
\* the number num / den as it appears in a hash list
Frac(num, den) ==
  LET g == GCD(Abs(num), den) IN <<num \div g, den \div g>>

GaussianFilteredPiecewiseConstPulseKw ==
  [channels : {<<"ch1", "ch2">>},
   lengths : {<< <<1, 1>>, <<2>> >>, << <<1, 2>>, <<1>> >>},
   amplitudes : {<< <<16, -16>>, <<16>> >>, << <<32, 16>>, <<32>> >>,
                 << <<16>>, <<16>> >>},
   gaussian_filter_sigma : {0, 1}]

GaussianFilteredPiecewiseConstPulse_init(shape, channels, lengths, amplitudes, gaussian_filter_sigma, den) ==
  IF Len(lengths) # Len(channels) \/ Len(amplitudes) # Len(channels)
     \/ \E i \in 1..Len(channels) : Len(lengths[i]) # Len(amplitudes[i])
  THEN Raise("AssertionError")
  ELSE Obj([shape |-> shape, channels |-> channels, t0 |-> None,
            lengths |-> lengths, amplitudes |-> amplitudes,
            gaussian_filter_sigma |-> gaussian_filter_sigma, den |-> den])

\* the wave of the segments k.. of one channel, the first starting at acc / den
\* after algorithm_time
RECURSIVE PiecewiseWave(_, _, _, _, _, _)
PiecewiseWave(obj, t, lens, ampl, k, acc) ==
  IF k > Len(lens) THEN Zeros(Len(t))
  ELSE
    LET t0 == algorithm_time(obj)[1]
        den == obj.den
        sigma == obj.gaussian_filter_sigma
        seg == [i \in 1..Len(t) |->
          IF sigma > 0
          THEN (ampl[k] * (Erf2(den * (t[i] - t0) - acc, den * sigma)
                           - Erf2(den * (t[i] - t0) - (acc + lens[k]),
                                  den * sigma))) \div 4
          ELSE IF den * (t[i] - t0) >= acc /\ den * (t[i] - t0) < acc + lens[k]
               THEN ampl[k] ELSE 0]
    IN WaveAdd(seg, PiecewiseWave(obj, t, lens, ampl, k + 1, acc + lens[k]))

GaussianFilteredPiecewiseConstPulse_chan_wf(obj, channel, t) ==
  IF ~InSeq(channel, obj.channels) THEN Raise("ValueError")
  ELSE
    LET idx == IndexOf(channel, obj.channels)
    IN IF Len(obj.lengths[idx]) > 0 /\ algorithm_time(obj) = None
       THEN Raise("TypeError")
       ELSE Arr(PiecewiseWave(obj, t, obj.lengths[idx], obj.amplitudes[idx],
                              1, 0))

GaussianFilteredPiecewiseConstPulse_hashables(obj, tstart, channel) ==
  IF ~InSeq(channel, obj.channels) THEN HashList(<<>>)
  ELSE IF algorithm_time(obj) = None THEN Raise("TypeError")
  ELSE
    LET idx == IndexOf(channel, obj.channels)
        chan_lens == obj.lengths[idx]
        chan_amps == obj.amplitudes[idx]
    IN HashList(HashHead(obj, tstart) \o <<Len(chan_lens)>> \o
                [i \in 1..Len(chan_lens) |-> Frac(chan_lens[i], obj.den)] \o
                chan_amps \o <<obj.gaussian_filter_sigma>>)

\* ---- NZTransitionControlledPulse
\* an argument that is one number, or a list with one number per channel
ScalarArg(n) == [list |-> FALSE, v |-> <<n>>]
ListArg(s) == [list |-> TRUE, v |-> s]
\* if not isinstance(x, list): x = len(channels) * [x]
PerChannel(x, n) == IF x.list THEN x.v ELSE [i \in 1..n |-> x.v[1]]
Min(a, b) == IF a < b THEN a ELSE b

\* main_lens, main_amps, trans_lens and trans_amps are scalars, repeated for
\* every channel; amp_offsets is a scalar or a list
NZTransitionControlledPulseKw ==
  [channels : {<<"ch1", "ch2">>}, main_lens : {2}, main_amps : {16},
   trans_lens : {1, 2}, trans_amps : {0, 16, -16},
   amp_offsets : {ScalarArg(0), ScalarArg(8), ScalarArg(16),
                  ListArg(<<0, 16>>), ListArg(<<8, 0>>)},
   gaussian_filter_sigma : {0, 1}, buffer_start : {0, 1}, buffer_end : {1}]

\* the segments of one channel: lengths [buffer_start, ml/2,
\* (tl - ml*ao/ta)/2, (tl + ml*ao/ta)/2, ml/2, buffer_end] as numerators over
\* den = 2 * |ta|
NZTC_lengths(kw, ao) ==
  LET ml == kw.main_lens
      tl == kw.trans_lens
      ta == kw.trans_amps
  IN <<kw.buffer_start * 2 * Abs(ta), ml * Abs(ta),
       tl * Abs(ta) - ml * ao * Sign(ta),
       tl * Abs(ta) + ml * ao * Sign(ta), ml * Abs(ta),
       kw.buffer_end * 2 * Abs(ta)>>
\* amplitudes [0, ma+ao, ta, -ta, -ma+ao, 0]
NZTC_amplitudes(kw, ao) ==
  <<0, kw.main_amps + ao, kw.trans_amps, -kw.trans_amps,
    -kw.main_amps + ao, 0>>

\* a variant of the constructor that asserts the feasibility of the first
\* channel only
NZTransitionControlledPulse_init_first(kw, base) ==
  LET n == Len(kw.channels)
      aos == PerChannel(kw.amp_offsets, n)
      k == Min(n, Len(aos))
  IN IF k > 0 /\ ~(Abs(kw.main_lens * aos[1])
                   < Abs(kw.trans_lens * kw.trans_amps))
     THEN Raise("AssertionError")
     ELSE GaussianFilteredPiecewiseConstPulse_init(
            "NZTransitionControlledPulse", kw.channels,
            [i \in 1..k |-> NZTC_lengths(kw, aos[i])],
            [i \in 1..k |-> NZTC_amplitudes(kw, aos[i])],
            kw.gaussian_filter_sigma,
            IF k > 0 THEN 2 * Abs(kw.trans_amps) ELSE 1)

\* a variant of the constructor whose last main segment has amplitude
\* -ma - ao
NZTransitionControlledPulse_init_mirrored(kw, base) ==
  LET n == Len(kw.channels)
      aos == PerChannel(kw.amp_offsets, n)
      k == Min(n, Len(aos))
  IN IF \E i \in 1..k : ~(Abs(kw.main_lens * aos[i])
                          < Abs(kw.trans_lens * kw.trans_amps))
     THEN Raise("AssertionError")
     ELSE GaussianFilteredPiecewiseConstPulse_init(
            "NZTransitionControlledPulse", kw.channels,
            [i \in 1..k |-> NZTC_lengths(kw, aos[i])],
            [i \in 1..k |-> [NZTC_amplitudes(kw, aos[i])
                               EXCEPT ![5] = -kw.main_amps - aos[i]]],
            kw.gaussian_filter_sigma,
            IF k > 0 THEN 2 * Abs(kw.trans_amps) ELSE 1)

\* the loop over zip(main_lens, ..., amp_offsets) asserts
\* abs(ml * ao) < abs(tl * ta) for a channel before it divides by ta
NZTransitionControlledPulse_init(kw, base) ==
  LET n == Len(kw.channels)
      aos == PerChannel(kw.amp_offsets, n)
      k == Min(n, Len(aos))
  IN IF \E i \in 1..k : ~(Abs(kw.main_lens * aos[i])
                          < Abs(kw.trans_lens * kw.trans_amps))
     THEN Raise("AssertionError")
     ELSE GaussianFilteredPiecewiseConstPulse_init(
            "NZTransitionControlledPulse", kw.channels,
            [i \in 1..k |-> NZTC_lengths(kw, aos[i])],
            [i \in 1..k |-> NZTC_amplitudes(kw, aos[i])],
            kw.gaussian_filter_sigma,
            IF k > 0 THEN 2 * Abs(kw.trans_amps) ELSE 1)

\* ---- dispatch on the class of the object
Shapes ==
  {"SSB_DRAG_pulse", "GaussianFilteredPiecewiseConstPulse",
   "NZTransitionControlledPulse", "BufferedSquarePulse", "BufferedCZPulse",
   "NZBufferedCZPulse", "BufferedNZFLIPPulse", "BufferedFLIPPulse",
   "NZMartinisGellarPulse", "GaussFilteredCosIQPulse",
   "GaussFilteredCosIQPulseMultiChromatic", "VirtualPulse", "SquarePulse",
   "CosPulse"}

KwSet(shape) ==
  CASE shape = "SSB_DRAG_pulse" -> SSB_DRAG_pulseKw
    [] shape = "GaussianFilteredPiecewiseConstPulse" ->
         GaussianFilteredPiecewiseConstPulseKw
    [] shape = "NZTransitionControlledPulse" -> NZTransitionControlledPulseKw
    [] shape = "BufferedSquarePulse" -> BufferedSquarePulseKw
    [] shape = "BufferedCZPulse" -> BufferedCZPulseKw
    [] shape = "NZBufferedCZPulse" -> NZBufferedCZPulseKw
    [] shape = "BufferedNZFLIPPulse" -> BufferedNZFLIPPulseKw
    [] shape = "BufferedFLIPPulse" -> BufferedFLIPPulseKw
    [] shape = "NZMartinisGellarPulse" -> NZMartinisGellarPulseKw
    [] shape = "GaussFilteredCosIQPulse" -> GaussFilteredCosIQPulseKw
    [] shape = "GaussFilteredCosIQPulseMultiChromatic" ->
         GaussFilteredCosIQPulseMultiChromaticKw
    [] shape = "VirtualPulse" -> VirtualPulseKw
    [] shape = "SquarePulse" -> SquarePulseKw
    [] shape = "CosPulse" -> CosPulseKw

New(shape, kw, base) ==
  CASE shape = "SSB_DRAG_pulse" -> SSB_DRAG_pulse_init(kw, base)
    [] shape = "GaussianFilteredPiecewiseConstPulse" ->
         GaussianFilteredPiecewiseConstPulse_init(shape, kw.channels,
           kw.lengths, kw.amplitudes, kw.gaussian_filter_sigma, 1)
    [] shape = "NZTransitionControlledPulse" ->
         NZTransitionControlledPulse_init(kw, base)
    [] shape = "BufferedSquarePulse" -> BufferedSquarePulse_init(kw, base)
    [] shape = "BufferedCZPulse" -> BufferedCZPulse_init(kw, base)
    [] shape = "NZBufferedCZPulse" -> NZBufferedCZPulse_init(kw, base)
    [] shape = "BufferedNZFLIPPulse" -> BufferedNZFLIPPulse_init(kw, base)
    [] shape = "BufferedFLIPPulse" -> BufferedFLIPPulse_init(kw, base)
    [] shape = "NZMartinisGellarPulse" -> NZMartinisGellarPulse_init(kw, base)
    [] shape = "GaussFilteredCosIQPulse" ->
         GaussFilteredCosIQPulse_init(kw, base)
    [] shape = "GaussFilteredCosIQPulseMultiChromatic" ->
         GaussFilteredCosIQPulseMultiChromatic_init(kw, base)
    [] shape = "VirtualPulse" -> VirtualPulse_init(kw, base)
    [] shape = "SquarePulse" -> SquarePulse_init(kw, base)
    [] shape = "CosPulse" -> CosPulse_init(kw, base)

channels(obj) ==
  IF obj.shape = "SSB_DRAG_pulse" THEN SSB_DRAG_pulse_channels(obj)
  ELSE obj.channels

chan_wf(obj, chan, tvals) ==
  CASE obj.shape = "SSB_DRAG_pulse" -> SSB_DRAG_pulse_chan_wf(obj, chan, tvals)
    [] obj.shape \in {"GaussianFilteredPiecewiseConstPulse",
                      "NZTransitionControlledPulse"} ->
         GaussianFilteredPiecewiseConstPulse_chan_wf(obj, chan, tvals)
    [] obj.shape = "BufferedSquarePulse" ->
         BufferedSquarePulse_chan_wf(obj, chan, tvals)
    [] obj.shape = "BufferedCZPulse" -> BufferedCZPulse_chan_wf(obj, chan, tvals)
    [] obj.shape = "NZBufferedCZPulse" ->
         NZBufferedCZPulse_chan_wf(obj, chan, tvals)
    [] obj.shape = "BufferedNZFLIPPulse" ->
         BufferedNZFLIPPulse_chan_wf(obj, chan, tvals)
    [] obj.shape = "BufferedFLIPPulse" ->
         BufferedFLIPPulse_chan_wf(obj, chan, tvals)
    [] obj.shape = "NZMartinisGellarPulse" ->
         NZMartinisGellarPulse_chan_wf(obj, chan, tvals)
    [] obj.shape = "GaussFilteredCosIQPulse" ->
         GaussFilteredCosIQPulse_chan_wf(obj, chan, tvals)
    [] obj.shape = "GaussFilteredCosIQPulseMultiChromatic" ->
         GaussFilteredCosIQPulseMultiChromatic_chan_wf(obj, chan, tvals)
    [] obj.shape = "VirtualPulse" -> VirtualPulse_chan_wf(obj, chan, tvals)
    [] obj.shape = "SquarePulse" -> SquarePulse_chan_wf(obj, chan, tvals)
    [] obj.shape = "CosPulse" -> CosPulse_chan_wf(obj, chan, tvals)

hashables(obj, tstart, channel) ==
  CASE obj.shape = "SSB_DRAG_pulse" ->
         SSB_DRAG_pulse_hashables(obj, tstart, channel)
    [] obj.shape \in {"GaussianFilteredPiecewiseConstPulse",
                      "NZTransitionControlledPulse"} ->
         GaussianFilteredPiecewiseConstPulse_hashables(obj, tstart, channel)
    [] obj.shape = "BufferedSquarePulse" ->
         BufferedSquarePulse_hashables(obj, tstart, channel)
    [] obj.shape = "BufferedCZPulse" ->
         BufferedCZPulse_hashables(obj, tstart, channel)
    [] obj.shape = "NZBufferedCZPulse" ->
         NZBufferedCZPulse_hashables(obj, tstart, channel)
    [] obj.shape = "BufferedNZFLIPPulse" ->
         BufferedNZFLIPPulse_hashables(obj, tstart, channel)
    [] obj.shape = "BufferedFLIPPulse" ->
         BufferedFLIPPulse_hashables(obj, tstart, channel)
    [] obj.shape = "NZMartinisGellarPulse" ->
         NZMartinisGellarPulse_hashables(obj, tstart, channel)
    [] obj.shape = "GaussFilteredCosIQPulse" ->
         GaussFilteredCosIQPulse_hashables(obj, tstart, channel)
    [] obj.shape = "GaussFilteredCosIQPulseMultiChromatic" ->
         GaussFilteredCosIQPulseMultiChromatic_hashables(obj, tstart, channel)
    [] obj.shape = "VirtualPulse" -> VirtualPulse_hashables(obj, tstart, channel)
    [] obj.shape = "SquarePulse" -> SquarePulse_hashables(obj, tstart, channel)
    [] obj.shape = "CosPulse" -> CosPulse_hashables(obj, tstart, channel)

\* ------------------------------------------ the pulse_params classmethods
\* The mapping a class returns is a record from the keys to the default
\* values, each default written as the literal of the source.  A class that
\* does not override the classmethod runs Pulse.pulse_params, which raises.
pulse_params(cls) ==
  CASE cls = "SSB_DRAG_pulse" ->
       Dict([pulse_type |-> "SSB_DRAG_pulse", I_channel |-> "None", Q_channel |->
           "None", amplitude |-> "0.1", sigma |-> "10e-9", nr_sigma |-> "5",
           motzoi |-> "0", mod_frequency |-> "1e6", phase |-> "0", alpha |->
           "1", phi_skew |-> "0"])
    [] cls = "BufferedSquarePulse" ->
       Dict([pulse_type |-> "BufferedSquarePulse", channel |-> "None", channels
           |-> "[]", amplitude |-> "0", pulse_length |-> "0",
           buffer_length_start |-> "0", buffer_length_end |-> "0",
           gaussian_filter_sigma |-> "0"])
    [] cls = "BufferedCZPulse" ->
       Dict([pulse_type |-> "BufferedCZPulse", channel |-> "None",
           aux_channels_dict |-> "None", amplitude |-> "0", frequency |-> "0",
           phase |-> "0", pulse_length |-> "0", buffer_length_start |-> "0",
           buffer_length_end |-> "0", extra_buffer_aux_pulse |-> "5e-9",
           gaussian_filter_sigma |-> "0"])
    [] cls = "NZBufferedCZPulse" ->
       Dict([pulse_type |-> "NZBufferedCZPulse", channel |-> "None",
           aux_channels_dict |-> "None", amplitude |-> "0", alpha |-> "1",
           frequency |-> "0", phase |-> "0", pulse_length |-> "0",
           buffer_length_start |-> "0", buffer_length_end |-> "0",
           extra_buffer_aux_pulse |-> "5e-9", gaussian_filter_sigma |-> "0"])
    [] cls = "BufferedNZFLIPPulse" ->
       Dict([pulse_type |-> "BufferedNZFLIPPulse", channel |-> "None", channel2
           |-> "None", amplitude |-> "0", amplitude2 |-> "0", alpha |-> "1",
           pulse_length |-> "0", buffer_length_start |-> "30e-9",
           buffer_length_end |-> "30e-9", flux_buffer_length |-> "0",
           flux_buffer_length2 |-> "0", channel_relative_delay |-> "0",
           gaussian_filter_sigma |-> "1e-9"])
    [] cls = "BufferedFLIPPulse" ->
       Dict([pulse_type |-> "BufferedFLIPPulse", channel |-> "None", channel2 |->
           "None", amplitude |-> "0", amplitude2 |-> "0", pulse_length |-> "0",
           buffer_length_start |-> "30e-9", buffer_length_end |-> "30e-9",
           flux_buffer_length |-> "0", flux_buffer_length2 |-> "0",
           channel_relative_delay |-> "0", gaussian_filter_sigma |-> "1e-9"])
    [] cls = "NZMartinisGellarPulse" ->
       Dict([pulse_type |-> "NZMartinisGellarPulse", channel |-> "None",
           aux_channels_dict |-> "None", theta_f |-> "np.pi / 2", alpha |->
           "1", pulse_length |-> "0", buffer_length_start |-> "0",
           buffer_length_end |-> "0", extra_buffer_aux_pulse |-> "0e-9",
           wave_generation_func |-> "None", qbc_freq |-> "0", qbt_freq |-> "0",
           anharmonicity |-> "0", J |-> "0", loop_asym |-> "0", dv_dphi |->
           "0", lambda_2 |-> "0"])
    [] cls = "GaussFilteredCosIQPulse" ->
       Dict([pulse_type |-> "GaussFilteredCosIQPulse", I_channel |-> "None",
           Q_channel |-> "None", amplitude |-> "0", pulse_length |-> "0",
           mod_frequency |-> "0", phase |-> "0", nr_sigma |-> "5", alpha |->
           "1", phi_skew |-> "0", gaussian_filter_sigma |-> "0"])
    [] cls = "GaussFilteredCosIQPulseMultiChromatic" ->
       Dict([pulse_type |-> "GaussFilteredCosIQPulseMultiChromatic", I_channel
           |-> "None", Q_channel |-> "None", amplitude |-> "0", pulse_length
           |-> "0", mod_frequency |-> "[0]", phase |-> "0", nr_sigma |-> "5",
           alpha |-> "1", phi_skew |-> "0", gaussian_filter_sigma |-> "0"])
    [] cls = "VirtualPulse" ->
       Dict([pulse_type |-> "VirtualPulse", pulse_length |-> "0"])
    [] cls = "SquarePulse" ->
       Dict([pulse_type |-> "SquarePulse", channel |-> "None", channels |-> "[]",
           amplitude |-> "0", length |-> "0"])
    [] cls = "CosPulse" ->
       Dict([pulse_type |-> "CosPulse", channel |-> "None", amplitude |-> "0",
           length |-> "0", frequency |-> "1e6", phase |-> "0"])
    [] OTHER -> Raise("NotImplementedError")

\* ------------------------------------ pulse.py: waveforms and pulse_area
\* getattr(self, 'pulse_off', False)
pulse_off(obj) == IF HasAttr(obj, "pulse_off") THEN obj.pulse_off ELSE FALSE

\* what a loop body does with the outcome of a chan_wf call: an exception
\* propagates, and arithmetic on a value that is no array fails
AsArray(w) ==
  IF w.kind = "array" \/ w.kind = "raise" THEN w ELSE Raise("TypeError")

\* wfs_dict[c] = chan_wf(..), zeroed when pulse_off, then truncated
direct_wf(obj, tvals, w) ==
  IF w.kind = "raise" THEN w
  ELSE truncate_wave(obj, tvals,
                     IF pulse_off(obj) THEN Zeros(Len(w.val)) ELSE w.val)

\* the first loop of waveforms, from the k-th of the pulse's channels on:
\* the channels that are keys of tvals_dict and no crosstalk-cancellation
\* channels get chan_wf, zeroed when pulse_off, then truncated
RECURSIVE waveforms_direct(_, _, _, _)
waveforms_direct_put(obj, tvals_dict, k, wfs_dict, tr) ==
  IF tr.kind = "raise" THEN tr
  ELSE waveforms_direct(obj, tvals_dict, k + 1,
                        (channels(obj)[k] :> tr.val) @@ wfs_dict)

waveforms_direct(obj, tvals_dict, k, wfs_dict) ==
  IF k > Len(channels(obj)) THEN Dict(wfs_dict)
  ELSE IF channels(obj)[k] \notin DOMAIN tvals_dict
  THEN waveforms_direct(obj, tvals_dict, k + 1, wfs_dict)
  ELSE IF ~HasAttr(obj, "crosstalk_cancellation_channels")
  THEN Raise("AttributeError")
  ELSE IF InSeq(channels(obj)[k], obj.crosstalk_cancellation_channels)
  THEN waveforms_direct(obj, tvals_dict, k + 1, wfs_dict)
  ELSE waveforms_direct_put(obj, tvals_dict, k, wfs_dict,
         direct_wf(obj, tvals_dict[channels(obj)[k]],
           AsArray(chan_wf(obj, channels(obj)[k], tvals_dict[channels(obj)[k]]))))

\* a variant of crosstalk_add that drops the matrix factor
crosstalk_add_unweighted(factor, w, rest) ==
  IF w.kind = "raise" THEN w
  ELSE IF rest.kind = "raise" THEN rest
  ELSE Arr(WaveAdd(w.val, rest.val))

\* one term factor * chan_wf(c2, tvals - shift) added to the rest of the sum
crosstalk_add(factor, w, rest) ==
  IF w.kind = "raise" THEN w
  ELSE IF rest.kind = "raise" THEN rest
  ELSE Arr(WaveAdd(WaveScale(factor, w.val), rest.val))

\* the sum over the pulse's channels c2 (from the k-th on) that are
\* crosstalk-cancellation channels of factor * chan_wf(c2, tvals - shift);
\* with_shift is false where pulse_area computes the sum
RECURSIVE crosstalk_sum(_, _, _, _, _)
crosstalk_sum(obj, idx_c, tvals, k, with_shift) ==
  IF k > Len(channels(obj)) THEN Arr(Zeros(Len(tvals)))
  ELSE IF ~InSeq(channels(obj)[k], obj.crosstalk_cancellation_channels)
  THEN crosstalk_sum(obj, idx_c, tvals, k + 1, with_shift)
  ELSE IF obj.crosstalk_cancellation_mtx = None THEN Raise("TypeError")
  ELSE
    LET idx_c2 == IndexOf(channels(obj)[k], obj.crosstalk_cancellation_channels)
        shift == IF with_shift /\ obj.crosstalk_cancellation_shift_mtx # None
                 THEN obj.crosstalk_cancellation_shift_mtx[1][idx_c][idx_c2]
                 ELSE 0
    IN crosstalk_add(obj.crosstalk_cancellation_mtx[1][idx_c][idx_c2],
         AsArray(chan_wf(obj, channels(obj)[k], WaveShift(tvals, shift))),
         crosstalk_sum(obj, idx_c, tvals, k + 1, with_shift))

\* wfs_dict[c] of a crosstalk-cancellation channel: zeros when pulse_off,
\* else the truncated sum
crosstalk_wf(obj, tvals, sum) ==
  IF pulse_off(obj) THEN Arr(Zeros(Len(tvals)))
  ELSE IF sum.kind = "raise" THEN sum
  ELSE truncate_wave(obj, tvals, sum.val)

\* the second loop of waveforms, from the k-th crosstalk-cancellation channel on
RECURSIVE waveforms_crosstalk(_, _, _, _)
waveforms_crosstalk_put(obj, tvals_dict, k, wfs_dict, tr) ==
  IF tr.kind = "raise" THEN tr
  ELSE waveforms_crosstalk(obj, tvals_dict, k + 1,
         (obj.crosstalk_cancellation_channels[k] :> tr.val) @@ wfs_dict)

waveforms_crosstalk(obj, tvals_dict, k, wfs_dict) ==
  IF k > Len(obj.crosstalk_cancellation_channels) THEN Dict(wfs_dict)
  ELSE IF obj.crosstalk_cancellation_channels[k] \notin DOMAIN tvals_dict
  THEN waveforms_crosstalk(obj, tvals_dict, k + 1, wfs_dict)
  ELSE waveforms_crosstalk_put(obj, tvals_dict, k, wfs_dict,
         crosstalk_wf(obj, tvals_dict[obj.crosstalk_cancellation_channels[k]],
           IF pulse_off(obj) THEN PyNone
           ELSE crosstalk_sum(obj,
                  IndexOf(obj.crosstalk_cancellation_channels[k],
                          obj.crosstalk_cancellation_channels),
                  tvals_dict[obj.crosstalk_cancellation_channels[k]], 1, TRUE)))

waveforms_second(obj, tvals_dict, direct) ==
  IF direct.kind = "raise" THEN direct
  ELSE IF ~HasAttr(obj, "crosstalk_cancellation_channels")
  THEN Raise("AttributeError")
  ELSE waveforms_crosstalk(obj, tvals_dict, 1, direct.val)

waveforms(obj, tvals_dict) ==
  waveforms_second(obj, tvals_dict, waveforms_direct(obj, tvals_dict, 1, <<>>))

\* np.sum(wfs) * dt of the waveform(s) pulse_area collected
area(wfs, dt) ==
  IF wfs.kind = "raise" THEN wfs ELSE Number(SumSeq(wfs.val) * dt)
\* waveforms({channel: tvals})[channel]
waveforms_item(wfs_dict, channel) ==
  IF wfs_dict.kind = "raise" THEN wfs_dict ELSE Arr(wfs_dict.val[channel])

pulse_area(obj, channel, tvals) ==
  IF pulse_off(obj) THEN Number(0)
  ELSE IF ~HasAttr(obj, "crosstalk_cancellation_channels")
  THEN Raise("AttributeError")
  ELSE area(IF InSeq(channel, obj.crosstalk_cancellation_channels)
            THEN crosstalk_sum(obj,
                   IndexOf(channel, obj.crosstalk_cancellation_channels),
                   tvals, 1, FALSE)
            ELSE IF InSeq(channel, channels(obj))
            THEN waveforms_item(waveforms(obj, (channel :> tvals)), channel)
            ELSE Arr(Zeros(Len(tvals))),
            tvals[2] - tvals[1])

\* ------------------------------------------- fluxpulse_predistortion.py
\* np.convolve(x, kernel, mode='full'): Len(x) + Len(kernel) - 1 samples
Convolve(x, kernel) ==
  [n \in 1..(Len(x) + Len(kernel) - 1) |->
     SumSeq([j \in 1..Len(x) |->
               IF n - j + 1 >= 1 /\ n - j + 1 <= Len(kernel)
               THEN x[j] * kernel[n - j + 1] ELSE 0])]

\* kernel.argmax(): the 0-based index of the first largest coefficient
ArgMax(kernel) ==
  (CHOOSE p \in 1..Len(kernel) :
     /\ \A q \in 1..Len(kernel) : kernel[q] <= kernel[p]
     /\ \A q \in 1..(p - 1) : kernel[q] < kernel[p]) - 1

\* a variant of filter_fir that takes the first len(x) samples of the
\* convolution, whatever the position of the kernel's peak
filter_fir_unaligned(kernel, x) ==
  IF Len(kernel) = 0 \/ Len(x) = 0 THEN Raise("ValueError")
  ELSE Arr(SubSeq(Convolve(x, kernel), 1, Len(x)))

\* argmax of an empty kernel and the convolution of an empty array raise
filter_fir(kernel, x) ==
  IF Len(kernel) = 0 \/ Len(x) = 0 THEN Raise("ValueError")
  ELSE LET iMax == ArgMax(kernel)
       IN Arr(SubSeq(Convolve(x, kernel), iMax + 1, Len(x) + iMax))

\* scipy.signal.lfilter(b, a, x), the first n output samples: a[0] * y[m] =
\* sum_k b[k] * x[m-k] - sum_{k>=1} a[k] * y[m-k].  a[0] is 1 or -1 in every
\* section of the model, where the division by a[0] is the product with a[0].
RECURSIVE lfilter_upto(_, _, _, _)
lfilter_upto(b, a, x, n) ==
  IF n = 0 THEN <<>>
  ELSE
    LET y == lfilter_upto(b, a, x, n - 1)
        fwd == SumSeq([k \in 1..Len(b) |->
                         IF n - k + 1 >= 1 THEN b[k] * x[n - k + 1] ELSE 0])
        back == SumSeq([k \in 1..Len(a) |->
                          IF k >= 2 /\ n - k + 1 >= 1
                          THEN a[k] * y[n - k + 1] ELSE 0])
    IN Append(y, (fwd - back) * a[1])

\* lfilter rejects a[0] = 0
lfilter(b, a, x) ==
  IF x.kind = "raise" THEN x
  ELSE IF Len(a) = 0 \/ a[1] = 0 THEN Raise("ValueError")
  ELSE Arr(lfilter_upto(b, a, x.val, Len(x.val)))

\* a variant of filter_iir in which every section filters the input x and the
\* output of the last section is returned
filter_iir_parallel(aIIRfilterList, bIIRfilterList, x) ==
  LET n == Min(Len(aIIRfilterList), Len(bIIRfilterList))
  IN IF n = 0 THEN Arr(x)
     ELSE lfilter(bIIRfilterList[n], aIIRfilterList[n], Arr(x))

\* the loop over zip(aIIRfilterList, bIIRfilterList): y after the sections k..
RECURSIVE filter_iir_from(_, _, _, _)
filter_iir_from(aIIRfilterList, bIIRfilterList, y, k) ==
  IF k > Min(Len(aIIRfilterList), Len(bIIRfilterList)) THEN y
  ELSE filter_iir_from(aIIRfilterList, bIIRfilterList,
                       lfilter(bIIRfilterList[k], aIIRfilterList[k], y), k + 1)

filter_iir(aIIRfilterList, bIIRfilterList, x) ==
  filter_iir_from(aIIRfilterList, bIIRfilterList, Arr(x), 1)

\* dict[key] = value
DictPut(d, key, value) == (key :> value) @@ d

\* a variant of the loop body of distort_qudev in which the IIR sections
\* filter the generated waveform, not the output of the FIR kernel
distort_wf_iir_on_input(filter_dict, wf) ==
  LET fir == IF filter_dict.FIR # None
             THEN filter_fir(filter_dict.FIR[1], wf) ELSE Arr(wf)
  IN IF fir.kind = "raise" THEN fir
     ELSE IF filter_dict.IIR # None
          THEN filter_iir(filter_dict.IIR[1][1], filter_dict.IIR[1][2], wf)
          ELSE fir

\* the loop body of distort_qudev after the two lookups: the FIR kernel
\* unless it is None, then the IIR sections unless they are None
distort_wf(filter_dict, wf) ==
  LET fir == IF filter_dict.FIR # None
             THEN filter_fir(filter_dict.FIR[1], wf) ELSE Arr(wf)
  IN IF fir.kind = "raise" THEN fir
     ELSE IF filter_dict.IIR # None
          THEN filter_iir(filter_dict.IIR[1][1], filter_dict.IIR[1][2],
                          fir.val)
          ELSE fir

\* distort_qudev from the k-th channel of ch_list on: the element and the
\* outcome.  chan_distorted[ch] is set before the lookups that can raise
\* KeyError (a channel without a filter_dict or without a waveform).
RECURSIVE distort_qudev_from(_, _, _, _)
distort_qudev_from(el, wfs_dict, distortion_dict, k) ==
  IF k > Len(distortion_dict.ch_list)
  THEN [element |-> el, out |-> Obj(el)]
  ELSE
    LET ch == distortion_dict.ch_list[k]
        marked == [el EXCEPT !.chan_distorted = DictPut(@, ch, TRUE)]
    IN IF ~HasKey(distortion_dict.filters, ch) \/ ~HasKey(wfs_dict, ch)
       THEN [element |-> marked, out |-> Raise("KeyError")]
       ELSE
         LET wf_dist == distort_wf(distortion_dict.filters[ch], wfs_dict[ch])
         IN IF wf_dist.kind = "raise"
            THEN [element |-> marked, out |-> wf_dist]
            ELSE distort_qudev_from(
                   [marked EXCEPT !.distorted_wfs = DictPut(@, ch, wf_dist.val)],
                   wfs_dict, distortion_dict, k + 1)

\* a variant of distort_qudev that clears the distorted flag and waveform of
\* every channel of the element before the loop over ch_list
distort_qudev_resetting(el, distortion_dict) ==
  distort_qudev_from([el EXCEPT !.chan_distorted = [c \in DOMAIN @ |-> FALSE],
                                !.distorted_wfs = <<>>],
                     el.wfs, distortion_dict, 1)

\* element.waveforms() is the element's generated waveforms, one per channel
distort_qudev(el, distortion_dict) ==
  distort_qudev_from(el, el.wfs, distortion_dict, 1)

\* ----------------------------------------------------------------- sequence.py
\* Sequence.segments, an OrderedDict, is the sequence of its items
\* [name, segment] in insertion order; a Segment is its name and the identity
\* of the object
SegmentNames(segs) == {segs[k].name : k \in 1..Len(segs)}

\* a variant of Sequence.add that stores the segment under a name that is
\* already present, as a plain dict assignment does
Sequence_add_overwriting(segs, segment) ==
  IF segment.name \in SegmentNames(segs)
  THEN [segments |-> [k \in 1..Len(segs) |->
                       IF segs[k].name = segment.name
                       THEN [name |-> segment.name, segment |-> segment]
                       ELSE segs[k]],
        out |-> PyNone]
  ELSE [segments |-> Append(segs, [name |-> segment.name, segment |-> segment]),
        out |-> PyNone]

Sequence_add(segs, segment) ==
  IF segment.name \in SegmentNames(segs)
  THEN [segments |-> segs, out |-> Raise("Exception")]
  ELSE [segments |-> Append(segs, [name |-> segment.name, segment |-> segment]),
        out |-> PyNone]

\* ------------------------------------------------- multi_qubit_tek_seq_elts.py
\* np.loadtxt(kernel_dir + kernel): the contents of the file, or OSError when
\* there is no such file
loadtxt(files, kernel) ==
  IF HasKey(files, kernel) THEN Arr(files[kernel]) ELSE Raise("OSError")

\* The loops of preload_kernels_func carry st: the cache, output_dict, the
\* names handed to np.loadtxt so far, and the outcome.  distortion_dict is
\* [ch_list, kernels]: distortion_dict['ch_list'] and, per channel ch,
\* the list of kernel names distortion_dict[ch].

\* a variant of the inner loop that loads every non-empty kernel name from
\* its file and stores it, cached or not
RECURSIVE preload_kernels_channel_reloading(_, _, _, _, _)
preload_kernels_channel_reloading(st, files, ch, names, k) ==
  IF k > Len(names) \/ st.out.kind = "raise" THEN st
  ELSE IF names[k] = ""
  THEN preload_kernels_channel_reloading(st, files, ch, names, k + 1)
  ELSE
    LET kernel_vec == loadtxt(files, names[k])
        tried == [st EXCEPT !.loaded = Append(@, names[k])]
    IN IF kernel_vec.kind = "raise" THEN [tried EXCEPT !.out = kernel_vec]
       ELSE preload_kernels_channel_reloading(
              [tried EXCEPT
                 !.output_dict[ch] = Append(@, kernel_vec.val),
                 !.cached_kernels = DictPut(@, names[k], kernel_vec.val)],
              files, ch, names, k + 1)

\* the inner loop of preload_kernels_func over the kernel names of channel ch
\* from the k-th on; '' is skipped, a cached name is answered from the cache
RECURSIVE preload_kernels_channel(_, _, _, _, _)
preload_kernels_channel(st, files, ch, names, k) ==
  IF k > Len(names) \/ st.out.kind = "raise" THEN st
  ELSE IF names[k] = ""
  THEN preload_kernels_channel(st, files, ch, names, k + 1)
  ELSE IF HasKey(st.cached_kernels, names[k])
  THEN preload_kernels_channel(
         [st EXCEPT !.output_dict[ch] = Append(@, st.cached_kernels[names[k]])],
         files, ch, names, k + 1)
  ELSE
    LET kernel_vec == loadtxt(files, names[k])
        tried == [st EXCEPT !.loaded = Append(@, names[k])]
    IN IF kernel_vec.kind = "raise" THEN [tried EXCEPT !.out = kernel_vec]
       ELSE preload_kernels_channel(
              [tried EXCEPT
                 !.output_dict[ch] = Append(@, kernel_vec.val),
                 !.cached_kernels = DictPut(@, names[k], kernel_vec.val)],
              files, ch, names, k + 1)

\* the outer loop over ch_list from the c-th channel on; a listed channel
\* without an entry in distortion_dict is a KeyError
RECURSIVE preload_kernels_from(_, _, _, _)
preload_kernels_from(st, files, distortion_dict, c) ==
  IF c > Len(distortion_dict.ch_list) \/ st.out.kind = "raise" THEN st
  ELSE IF ~HasKey(distortion_dict.kernels, distortion_dict.ch_list[c])
  THEN [st EXCEPT !.out = Raise("KeyError")]
  ELSE preload_kernels_from(
         preload_kernels_channel(st, files, distortion_dict.ch_list[c],
           distortion_dict.kernels[distortion_dict.ch_list[c]], 1),
         files, distortion_dict, c + 1)

\* preload_kernels_func: cached_kernels after the call, the names loaded from
\* file, and output_dict or the exception
preload_kernels_func(cache, files, distortion_dict) ==
  LET st == preload_kernels_from(
              [cached_kernels |-> cache,
               output_dict |-> [ch \in Range(distortion_dict.ch_list) |-> <<>>],
               loaded |-> <<>>, out |-> PyNone],
              files, distortion_dict, 1)
  IN [cached_kernels |-> st.cached_kernels, loaded |-> st.loaded,
      out |-> IF st.out.kind = "raise" THEN st.out ELSE Dict(st.output_dict)]

\* ------------------------------------------------------------ waveforms_flux.py
\* martinis_flux_pulse_v2 with interpolate = False.  Times are in sample
\* periods (sampling_rate = 1) and length is a numerator over TimeDen.
\* Angles are in units of (pi - 0.01) / 312 rad, so that the upper clip bound
\* pi - .01 is PiMinus001 units exactly and pi lies strictly between 312.99
\* and 313 units; the waveforms are numerators over AngleDen.  The lambdas
\* are integers with lambda_3 in {-1, 0, 1}, so that factor_norm is 1/2, 1/4
\* or left at 1, and lengths round to 2 or 4 samples, where every cosine of
\* the trajectory is that of a multiple of 90 degrees.
TimeDen == 4
AngleDen == 4
PiMinus001 == 312

\* np.round of num / den, den > 0: to the nearest integer, halves to even
np_round(num, den) ==
  LET fl == num \div den
      r2 == 2 * (num % den)
  IN IF r2 < den THEN fl
     ELSE IF r2 > den THEN fl + 1
     ELSE IF fl % 2 = 0 THEN fl ELSE fl + 1
\* len(np.arange(0, num / den, 1)) for num >= 0
arange_len(num, den) == (num + den - 1) \div den
np_clip(x, lo, hi) == IF x < lo THEN (IF lo > hi THEN hi ELSE lo)
                      ELSE IF x > hi THEN hi ELSE x
Max(a, b) == IF a > b THEN a ELSE b

\* a variant of the first statement that leaves theta_f as it was given
martinis_theta_f_unclipped(args) == args.theta_f

\* theta_f after the first statement of the function
martinis_theta_f(args) ==
  IF args.theta_f < args.theta_i /\ args.theta_f_must_be_above
  THEN np_clip(args.theta_f, args.theta_i, PiMinus001)
  ELSE args.theta_f

martinis_nr_samples(args) == np_round(args.length, TimeDen)

\* factor_norm as a numerator over AngleDen: desired_norm / norm_odd_lambdas
\* when the norm is not 0, else 1
martinis_factor_norm(args) ==
  LET lambda_0 == 1 - args.lambda_1
      norm_odd_lambdas == args.lambda_1 + args.lambda_3 + lambda_0
  IN IF Abs(norm_odd_lambdas) > 0
     THEN (AngleDen \div 2) \div norm_odd_lambdas
     ELSE AngleDen

\* dtheta_vec[k] (k counted from 0) as a numerator over AngleDen: lambda_0
\* and the even lambdas as given, lambda_1 and lambda_3 times factor_norm
martinis_dtheta(args, k, n) ==
  LET f == martinis_factor_norm(args)
  IN AngleDen * (1 - args.lambda_1)
     + f * args.lambda_1 * (1 - CosDeg((360 * k) \div n))
     + AngleDen * args.lambda_2 * (1 - CosDeg((2 * 360 * k) \div n))
     + f * args.lambda_3 * (1 - CosDeg((3 * 360 * k) \div n))
     + AngleDen * args.lambda_4 * (1 - CosDeg((4 * 360 * k) \div n))

\* theta_wave before the step and the clipping, with final angle theta_f
martinis_theta_wave(args, theta_f) ==
  [i \in 1..martinis_nr_samples(args) |->
     AngleDen * args.theta_i
     + martinis_dtheta(args, i - 1, martinis_nr_samples(args))
       * (theta_f - args.theta_i)]

\* the step on the first or on the last l_half samples
martinis_step(args, theta_wave) ==
  LET l_half == Len(theta_wave) \div 2
      step == AngleDen * (args.step_max * args.step_height + args.theta_i)
  IN IF ~args.apply_wait_time THEN theta_wave
     ELSE [i \in 1..Len(theta_wave) |->
             IF (args.step_first /\ i <= l_half)
                \/ (~args.step_first /\ i > Len(theta_wave) - l_half)
             THEN Max(theta_wave[i], step) ELSE theta_wave[i]]

martinis_clip(args, theta_wave) ==
  LET clip_min == IF args.theta_f_must_be_above THEN args.theta_i ELSE 0
  IN [i \in 1..Len(theta_wave) |->
        np_clip(theta_wave[i], AngleDen * clip_min, AngleDen * PiMinus001)]

\* interp1d(taus, y, bounds_error=False, fill_value='extrapolate') at
\* t_samples = arange(0, length, 1): y on the grid, the line through the last
\* two points beyond it
martinis_interp(args, y) ==
  [j \in 1..arange_len(args.length, TimeDen) |->
     IF j <= Len(y) THEN y[j]
     ELSE y[Len(y)] + (j - Len(y)) * (y[Len(y)] - y[Len(y) - 1])]

martinis_flux_pulse_v2(args) ==
  Arr(martinis_interp(args,
        martinis_clip(args,
          martinis_step(args,
            martinis_theta_wave(args, martinis_theta_f(args))))))

\* ------------------------------------------------------------ state machine
\* pulse[i] is the i-th pulse object (its attributes), kwargs[i] the keyword
\* arguments it was constructed with, element the element handed to
\* distort_qudev, ret the last call and its outcome
NoObject == [shape |-> "none"]
NoElement == [wfs |-> <<>>, chan_distorted |-> <<>>, distorted_wfs |-> <<>>]
\* the kernel files present at first
InitialFiles == ("k1" :> <<1>>)
NoCall ==
  [op |-> "none", who |-> 0, chan |-> "", tstart |-> 0, tvals |-> <<>>,
   keys |-> {}, wave |-> <<>>, out |-> PyNone]
Call(op, i, chan, tstart, tvals, keys, wave, out) ==
  [op |-> op, who |-> i, chan |-> chan, tstart |-> tstart, tvals |-> tvals,
   keys |-> keys, wave |-> wave, out |-> out]

\* no pulse and no element yet; Sequence.__init__ has made segments an empty
\* odict; the module was imported with cached_kernels = {}; kernel_dir holds
\* the kernel files on disk
Init ==
  /\ pulse = [i \in {1, 2} |-> NoObject]
  /\ kwargs = [i \in {1, 2} |-> None]
  /\ element = NoElement
  /\ segments = <<>>
  /\ cached_kernels = <<>>
  /\ kernel_dir = InitialFiles
  /\ ret = NoCall

Exists(i) == pulse[i].shape # "none"

\* the constructor call: a pulse object, or the exception it raises; the
\* call record keeps the keyword arguments
Construct(i, shape, kw, base) ==
  LET r == New(shape, kw, base)
  IN /\ ~Exists(i)
     /\ pulse' = IF r.kind = "raise" THEN pulse
                 ELSE [pulse EXCEPT ![i] = r.val]
     /\ kwargs' = IF r.kind = "raise" THEN kwargs
                  ELSE [kwargs EXCEPT ![i] = kw]
     /\ ret' = [kw |-> kw] @@ Call("init", i, shape, 0, <<>>, {}, <<>>,
                                    IF r.kind = "raise" THEN r ELSE PyNone)
     /\ UNCHANGED <<element, segments, cached_kernels, kernel_dir>>

\* the setter algorithm_time(val), val not None
SetAlgorithmTime(i, val) ==
  /\ Exists(i)
  /\ pulse' = [pulse EXCEPT ![i].t0 = Some(val)]
  /\ ret' = Call("algorithm_time", i, "", 0, <<>>, {}, <<>>, PyNone)
  /\ UNCHANGED <<kwargs, element, segments, cached_kernels, kernel_dir>>

\* the owner of the pulse assigns the crosstalk-cancellation attributes
SetCrosstalk(i, xt) ==
  /\ Exists(i)
  /\ pulse' = [pulse EXCEPT ![i] =
       [crosstalk_cancellation_channels |-> xt.channels,
        crosstalk_cancellation_mtx |-> xt.mtx,
        crosstalk_cancellation_shift_mtx |-> xt.shift_mtx] @@ pulse[i]]
  /\ ret' = Call("crosstalk", i, "", 0, <<>>, {}, <<>>, PyNone)
  /\ UNCHANGED <<kwargs, element, segments, cached_kernels, kernel_dir>>

CallHashables(i, tstart, channel) ==
  /\ Exists(i)
  /\ ret' = Call("hashables", i, channel, tstart, <<>>, {}, <<>>,
                 hashables(pulse[i], tstart, channel))
  /\ UNCHANGED <<pulse, kwargs, element, segments, cached_kernels,
               kernel_dir>>

CallChanWf(i, chan, tvals) ==
  /\ Exists(i)
  /\ ret' = Call("chan_wf", i, chan, 0, tvals, {}, <<>>,
                 chan_wf(pulse[i], chan, tvals))
  /\ UNCHANGED <<pulse, kwargs, element, segments, cached_kernels,
               kernel_dir>>

\* waveforms(tvals_dict) with the same sample grid under every key
CallWaveforms(i, keys, tvals) ==
  /\ Exists(i)
  /\ ret' = Call("waveforms", i, "", 0, tvals, keys, <<>>,
                 waveforms(pulse[i], [c \in keys |-> tvals]))
  /\ UNCHANGED <<pulse, kwargs, element, segments, cached_kernels,
               kernel_dir>>

CallPulseArea(i, channel, tvals) ==
  /\ Exists(i)
  /\ ret' = Call("pulse_area", i, channel, 0, tvals, {}, <<>>,
                 pulse_area(pulse[i], channel, tvals))
  /\ UNCHANGED <<pulse, kwargs, element, segments, cached_kernels,
               kernel_dir>>

\* the classmethod pulse_params() of a pulse class
CallPulseParams(cls) ==
  /\ ret' = Call("pulse_params", 0, cls, 0, <<>>, {}, <<>>, pulse_params(cls))
  /\ UNCHANGED <<pulse, kwargs, element, segments, cached_kernels,
               kernel_dir>>

CallTruncateWave(i, tvals, wave) ==
  /\ Exists(i)
  /\ ret' = Call("truncate_wave", i, "", 0, tvals, {}, wave,
                 truncate_wave(pulse[i], tvals, wave))
  /\ UNCHANGED <<pulse, kwargs, element, segments, cached_kernels,
               kernel_dir>>

CallFilterFir(kernel, x) ==
  /\ ret' = [kernel |-> kernel] @@
            Call("filter_fir", 0, "", 0, <<>>, {}, x, filter_fir(kernel, x))
  /\ UNCHANGED <<pulse, kwargs, element, segments, cached_kernels,
               kernel_dir>>

CallFilterIir(aIIRfilterList, bIIRfilterList, x) ==
  /\ ret' = [a |-> aIIRfilterList, b |-> bIIRfilterList] @@
            Call("filter_iir", 0, "", 0, <<>>, {}, x,
                 filter_iir(aIIRfilterList, bIIRfilterList, x))
  /\ UNCHANGED <<pulse, kwargs, element, segments, cached_kernels,
               kernel_dir>>

\* distort_qudev(element, distortion_dict): the element is updated in place,
\* also by a call that raises; the call record keeps the element it was given
CallDistortQudev(distortion_dict) ==
  LET r == distort_qudev(element, distortion_dict)
  IN /\ element' = r.element
     /\ ret' = [distortion_dict |-> distortion_dict, before |-> element] @@
               Call("distort_qudev", 0, "", 0, <<>>, {}, <<>>, r.out)
     /\ UNCHANGED <<pulse, kwargs, segments, cached_kernels, kernel_dir>>

CallSequenceAdd(segment) ==
  LET r == Sequence_add(segments, segment)
  IN /\ segments' = r.segments
     /\ ret' = [segment |-> segment, before |-> segments] @@
               Call("add", 0, "", 0, <<>>, {}, <<>>, r.out)
     /\ UNCHANGED <<pulse, kwargs, element, cached_kernels, kernel_dir>>

CallPreloadKernels(distortion_dict) ==
  LET r == preload_kernels_func(cached_kernels, kernel_dir, distortion_dict)
  IN /\ cached_kernels' = r.cached_kernels
     /\ ret' = [distortion_dict |-> distortion_dict, before |-> cached_kernels,
                loaded |-> r.loaded] @@
               Call("preload_kernels_func", 0, "", 0, <<>>, {}, <<>>, r.out)
     /\ UNCHANGED <<pulse, kwargs, element, segments, kernel_dir>>

\* somebody outside the program writes a kernel file
WriteKernelFile(kernel, vec) ==
  /\ kernel_dir' = DictPut(kernel_dir, kernel, vec)
  /\ ret' = [before |-> cached_kernels] @@
            Call("write_file", 0, kernel, 0, <<>>, {}, <<>>, PyNone)
  /\ UNCHANGED <<pulse, kwargs, element, segments, cached_kernels>>

\* the call whose arguments ret holds is made
CallMartinisFluxPulseV2 ==
  /\ ret.op = "none" /\ HasKey(ret, "args")
  /\ ret' = [args |-> ret.args,
             theta_f |-> martinis_theta_f(ret.args),
             theta_wave |-> martinis_theta_wave(ret.args,
                                                martinis_theta_f(ret.args))]
            @@ Call("martinis_flux_pulse_v2", 0, "", 0, <<>>, {}, <<>>,
                    martinis_flux_pulse_v2(ret.args))
  /\ UNCHANGED <<pulse, kwargs, element, segments, cached_kernels,
                 kernel_dir>>

\* ---- the inputs of the specifications
\* keyword arguments of Pulse.__init__: muted, hard truncation, truncation
\* with a decay whose nr_sigma is missing or given
BaseSet ==
  {DefaultBase, [DefaultBase EXCEPT !.pulse_off = TRUE],
   [DefaultBase EXCEPT !.truncation_length = Some(1)],
   [DefaultBase EXCEPT !.truncation_length = Some(1),
                       !.truncation_decay_sigma = 1],
   [DefaultBase EXCEPT !.truncation_length = Some(1),
                       !.truncation_decay_sigma = 1,
                       !.truncation_decay_nr_sigma = Some(2)]}

XtSet ==
  {[channels |-> <<"ch3", "ch1">>, mtx |-> Some(<< <<1, 2>>, <<0, 1>> >>),
    shift_mtx |-> None],
   [channels |-> <<"ch3", "ch1">>, mtx |-> Some(<< <<1, 2>>, <<0, 1>> >>),
    shift_mtx |-> Some(<< <<0, 1>>, <<0, 0>> >>)],
   [channels |-> <<"ch2", "ch1">>, mtx |-> Some(<< <<1, 1>>, <<2, 1>> >>),
    shift_mtx |-> Some(<< <<0, 1>>, <<1, 0>> >>)]}

KeySets == {{"ch1"}, {"ch3"}, {"ch1", "ch2", "ch3"}}
WaveSet == {[i \in 1..NSamples |-> 16], [i \in 1..NSamples |-> 16 * i]}

\* the reference parameter sets of a shape: the keywords named in Lowest take
\* the least value of their domain, the others range freely
Lowest ==
  {"gaussian_filter_sigma", "amplitude", "alpha", "nr_sigma", "motzoi",
   "pulse_length", "buffer_length_start", "buffer_length_end",
   "flux_buffer_length", "flux_buffer_length2", "extra_buffer_aux_pulse",
   "dv_dphi", "wave_generation_func", "trans_lens", "buffer_start",
   "length", "phase"}
RefKwSet(shape) ==
  {kw \in KwSet(shape) :
     \A f \in DOMAIN kw \cap Lowest :
       \A other \in KwSet(shape) : kw[f] <= other[f]}

\* the number of keywords in which two argument records of one shape differ
KwDiff(kw1, kw2) == Cardinality({f \in DOMAIN kw1 : kw1[f] # kw2[f]})

\* signals, FIR kernels and IIR sections (a, b)
SignalSet ==
  WaveSet \cup {[i \in 1..NSamples |-> IF i = 2 THEN 16 ELSE 0]}
KernelSet == {<<1>>, <<0, 1, 0>>, <<0, 0, 1>>, <<1, 1>>, <<1, 2, 1>>, <<2>>}
SectionSet ==
  {<< <<1, 0>>, <<1, 0>> >>, << <<1, -1>>, <<1, 0>> >>,
   << <<-1, 0>>, <<2, 1>> >>}
\* lists of up to two sections, as the pair [aIIRfilterList, bIIRfilterList]
IirSet ==
  {<< <<>>, <<>> >>}
  \cup {<< <<s[1]>>, <<s[2]>> >> : s \in SectionSet}
  \cup {<< <<s[1], t[1]>>, <<s[2], t[2]>> >> : s \in SectionSet, t \in SectionSet}
FilterDictSet ==
  [FIR : {None} \cup {Some(k) : k \in {<<0, 1, 0>>, <<1, 1>>}},
   IIR : {None, Some(<< << <<1, 0>>, <<1, -1>> >>,
                        << <<1, 1>>, <<1, 0>> >> >>)}]
\* distortion dictionaries: ch_list and the filter_dict of some channels
DistortionDictSet ==
  {[ch_list |-> l, filters |-> [c \in {"ch1", "ch2"} |-> f]] :
     l \in {<<"ch1">>, <<"ch2", "ch1">>}, f \in FilterDictSet}
  \cup {[ch_list |-> <<"ch1", "ch3">>,
         filters |-> [c \in {"ch1"} |-> [FIR |-> None, IIR |-> None]]]}
\* elements with a generated waveform on ch1 and ch2, nothing distorted yet
ElementSet ==
  {[wfs |-> [c \in {"ch1", "ch2"} |->
               IF c = "ch1" THEN w ELSE [i \in 1..NSamples |-> 16 * i]],
    chan_distorted |-> [c \in {"ch1", "ch2"} |-> FALSE],
    distorted_wfs |-> <<>>] : w \in SignalSet}

\* segments: three names, two Segment objects of each name
SegmentSet == [name : {"seg_a", "seg_b", "seg_c"}, id : {1, 2}]
\* kernel files: their names and their contents
KernelNames == {"k1", "k2"}
KernelVecs == {<<1>>, <<1, 2>>}
\* distortion dictionaries of preload_kernels_func: a repeated name, an empty
\* name, a second channel, and a listed channel without an entry
PreloadDictSet ==
  {[ch_list |-> l, kernels |-> [c \in {"ch1", "ch2"} |->
                                  IF c = "ch1" THEN a ELSE b]] :
     l \in {<<"ch1">>, <<"ch1", "ch2">>},
     a \in {<<"k1">>, <<"", "k1", "k1">>, <<"k2", "k1">>},
     b \in {<<>>, <<"k2">>}}
  \cup {[ch_list |-> <<"ch1", "ch3">>,
         kernels |-> [c \in {"ch1"} |-> <<"k1">>]]}

\* ---- one pulse of any shape, queried for hashes and waveforms
Next ==
  \/ \E shape \in Shapes : \E kw \in KwSet(shape) :
       Construct(1, shape, kw, DefaultBase)
  \/ \E val \in Times : SetAlgorithmTime(1, val)
  \/ \E tstart \in Times, channel \in AllChannels :
       CallHashables(1, tstart, channel)
  \/ \E chan \in AllChannels, tvals \in TvalsSet : CallChanWf(1, chan, tvals)
  \/ \E keys \in KeySets, tvals \in TvalsSet : CallWaveforms(1, keys, tvals)
  \/ \E cls \in Shapes : CallPulseParams(cls)

Spec == Init /\ [][Next]_vars

\* ---- one pulse with truncation, muting and crosstalk cancellation
NextWf ==
  \/ \E shape \in Shapes : \E kw \in RefKwSet(shape) : \E base \in BaseSet :
       Construct(1, shape, kw, base)
  \/ \E val \in Times : SetAlgorithmTime(1, val)
  \/ \E xt \in XtSet : SetCrosstalk(1, xt)
  \/ \E keys \in KeySets, tvals \in TvalsSet : CallWaveforms(1, keys, tvals)
  \/ \E channel \in AllChannels, tvals \in TvalsSet :
       CallPulseArea(1, channel, tvals)
  \/ \E tvals \in TvalsSet, wave \in WaveSet : CallTruncateWave(1, tvals, wave)

SpecWf == Init /\ [][NextWf]_vars

\* ---- a reference pulse and a second pulse of the same shape whose arguments
\* differ from the first's in at most one keyword
NextPair ==
  \/ \E shape \in Shapes : \E kw \in RefKwSet(shape) :
       Construct(1, shape, kw, DefaultBase)
  \/ /\ Exists(1)
     /\ \E kw \in KwSet(pulse[1].shape) :
          /\ KwDiff(kwargs[1], kw) <= 1
          /\ Construct(2, pulse[1].shape, kw, DefaultBase)
  \/ \E i \in {1, 2}, val \in Times : SetAlgorithmTime(i, val)
  \/ \E i \in {1, 2}, tstart \in Times, channel \in {"ch1", "ch2"} :
       CallHashables(i, tstart, channel)

SpecPair == Init /\ [][NextPair]_vars

\* ---- a reference pulse and a second pulse of the same shape built from the
\* same arguments, which may be muted, truncated or given crosstalk
\* cancellation
NextReuse ==
  \/ \E shape \in Shapes : \E kw \in RefKwSet(shape) :
       Construct(1, shape, kw, DefaultBase)
  \/ /\ Exists(1)
     /\ \E base \in BaseSet : Construct(2, pulse[1].shape, kwargs[1], base)
  \/ \E i \in {1, 2}, val \in Times : SetAlgorithmTime(i, val)
  \/ \E xt \in XtSet : SetCrosstalk(2, xt)
  \/ \E i \in {1, 2}, tstart \in Times, channel \in {"ch1", "ch2"} :
       CallHashables(i, tstart, channel)

SpecReuse == Init /\ [][NextReuse]_vars

\* ---- the flux pulse, for lengths of 2 and 4 samples and a quarter or a
\* half sample around them
MartinisArgs ==
  [length : {7, 8, 9, 10, 15, 16, 17}, theta_i : {20, 100},
   theta_f : {12, 100, 212, 308},
   lambda_1 : {0, 1}, lambda_2 : {-1, 0}, lambda_3 : {-1, 0, 1},
   lambda_4 : {0}, step_height : {0, 10}, step_max : {2},
   step_first : BOOLEAN, apply_wait_time : BOOLEAN,
   theta_f_must_be_above : BOOLEAN]

\* the arguments of the call are drawn at the start
InitFlux ==
  /\ pulse = [i \in {1, 2} |-> NoObject]
  /\ kwargs = [i \in {1, 2} |-> None]
  /\ element = NoElement
  /\ segments = <<>>
  /\ cached_kernels = <<>>
  /\ kernel_dir = InitialFiles
  /\ ret \in {[args |-> args] @@ NoCall : args \in MartinisArgs}

NextFlux == CallMartinisFluxPulseV2

SpecFlux == InitFlux /\ [][NextFlux]_vars

\* ---- a sequence to which segments are added
NextSeq == \E segment \in SegmentSet : CallSequenceAdd(segment)

SpecSeq == Init /\ [][NextSeq]_vars

\* ---- the kernel cache, with kernel files that appear and change on disk
NextKernels ==
  \/ \E distortion_dict \in PreloadDictSet : CallPreloadKernels(distortion_dict)
  \/ \E kernel \in KernelNames, vec \in KernelVecs :
       WriteKernelFile(kernel, vec)

SpecKernels == Init /\ [][NextKernels]_vars

\* ---- the predistortion filters, and an element that is distorted
InitDistort ==
  /\ pulse = [i \in {1, 2} |-> NoObject]
  /\ kwargs = [i \in {1, 2} |-> None]
  /\ element \in ElementSet
  /\ segments = <<>>
  /\ cached_kernels = <<>>
  /\ kernel_dir = InitialFiles
  /\ ret = NoCall

NextDistort ==
  \/ \E kernel \in KernelSet, x \in SignalSet : CallFilterFir(kernel, x)
  \/ \E f \in IirSet, x \in SignalSet : CallFilterIir(f[1], f[2], x)
  \/ \E distortion_dict \in DistortionDictSet :
       CallDistortQudev(distortion_dict)

SpecDistort == InitDistort /\ [][NextDistort]_vars

\* ------------------------------------------------------------------ claims
\* the pulse the last call was made on, and the other one
Callee == pulse[ret.who]
Other(i) == 3 - i
IsMember(obj, c) == InSeq(c, channels(obj))
XtChannels(obj) ==
  IF HasAttr(obj, "crosstalk_cancellation_channels")
  THEN obj.crosstalk_cancellation_channels ELSE <<>>
NonEmptyList(out) == out.kind = "list" /\ Len(out.val) > 0
SameList(out1, out2) ==
  out1.kind = "list" /\ out2.kind = "list" /\ out1.val = out2.val
SameWave(out1, out2) ==
  /\ out1.kind = out2.kind
  /\ out1.kind = "raise" => out1.exc = out2.exc
  /\ out1.kind = "array" => out1.val = out2.val

\* C1: two pulses of the same shape that return equal, non-empty
\* hashables(tstart, c) for the same tstart give the same chan_wf(c, tvals)
\* for every tvals
C1_HashSoundness ==
  (ret.op = "hashables" /\ Exists(Other(ret.who)) /\ NonEmptyList(ret.out)
   /\ SameList(hashables(pulse[Other(ret.who)], ret.tstart, ret.chan), ret.out))
  => \A tvals \in TvalsSet :
       SameWave(chan_wf(Callee, ret.chan, tvals),
                chan_wf(pulse[Other(ret.who)], ret.chan, tvals))

\* C2: two IQ pulses (SSB_DRAG_pulse, GaussFilteredCosIQPulse,
\* GaussFilteredCosIQPulseMultiChromatic) with the same parameters and the
\* same algorithm_time - tstart, placed at different algorithm_time, have equal
\* hashables only if their samples relative to tstart are equal
IQShapes ==
  {"SSB_DRAG_pulse", "GaussFilteredCosIQPulse",
   "GaussFilteredCosIQPulseMultiChromatic"}
C2_PhaseReferenceMirrored ==
  (ret.op = "hashables" /\ Exists(Other(ret.who))
   /\ Callee.shape \in IQShapes /\ NonEmptyList(ret.out)
   /\ kwargs[1] = kwargs[2]
   /\ pulse[Other(ret.who)].t0 # None
   /\ pulse[Other(ret.who)].t0 # Callee.t0
   /\ SameList(hashables(pulse[Other(ret.who)],
                         ret.tstart + pulse[Other(ret.who)].t0[1] - Callee.t0[1],
                         ret.chan), ret.out))
  => SameWave(chan_wf(Callee, ret.chan, Tvals(ret.tstart, 1)),
              chan_wf(pulse[Other(ret.who)], ret.chan,
                      Tvals(ret.tstart + pulse[Other(ret.who)].t0[1]
                            - Callee.t0[1], 1)))

\* C3: chan_wf, waveforms and hashables called for a channel of a pulse whose
\* algorithm_time was never set raise; none returns a waveform or a hash list
C3_UnsetTimeRaises ==
  (/\ ret.op \in {"chan_wf", "hashables", "waveforms"}
   /\ Callee.t0 = None
   /\ \/ ret.op \in {"chan_wf", "hashables"} /\ IsMember(Callee, ret.chan)
      \/ ret.op = "waveforms" /\ \E c \in ret.keys : IsMember(Callee, c))
  => ret.out.kind = "raise"

\* C4: hashables(tstart, channel) is the empty list when channel is not one
\* of the pulse's channels, and a non-empty list when it is one of them and
\* algorithm_time is set
C4_EmptyIffNotMember ==
  ret.op = "hashables" =>
    /\ ~IsMember(Callee, ret.chan)
         => (ret.out.kind = "list" /\ Len(ret.out.val) = 0)
    /\ (IsMember(Callee, ret.chan) /\ Callee.t0 # None)
         => NonEmptyList(ret.out)
\* hashables was called with a channel outside a pulse that has channels and
\* a set algorithm_time
C4_Witness ==
  /\ ret.op = "hashables" /\ Callee.t0 # None
  /\ Len(channels(Callee)) > 0 /\ ~IsMember(Callee, ret.chan)
  /\ ret.out.kind = "list"

\* C5: two pulses of a shape with a phase parameter (SSB_DRAG_pulse,
\* BufferedCZPulse, GaussFilteredCosIQPulse, CosPulse) that differ only in
\* their phase, by a multiple of 360 degrees, return identical hashables
PhaseShapes ==
  {"SSB_DRAG_pulse", "BufferedCZPulse", "GaussFilteredCosIQPulse", "CosPulse"}
C5_PhaseNormalised ==
  (ret.op = "hashables" /\ Exists(Other(ret.who))
   /\ Callee.shape \in PhaseShapes
   /\ KwDiff(kwargs[1], kwargs[2]) = 1
   /\ kwargs[1].phase # kwargs[2].phase
   /\ (kwargs[1].phase - kwargs[2].phase) % 360 = 0
   /\ Callee.t0 # None /\ pulse[Other(ret.who)].t0 = Callee.t0)
  => SameList(hashables(pulse[Other(ret.who)], ret.tstart, ret.chan), ret.out)

\* C6: chan_wf(channel, tvals) with a channel that is not one of the pulse's
\* channels raises or returns an all-zero array of len(tvals), never a
\* non-zero waveform or a value that is no array
C6_NonMemberChannel ==
  (ret.op = "chan_wf" /\ ~IsMember(Callee, ret.chan))
  => \/ ret.out.kind = "raise"
     \/ /\ ret.out.kind = "array"
        /\ Len(ret.out.val) = Len(ret.tvals)
        /\ IsZero(ret.out.val)

\* C7: for every shape, waveforms maps each channel c of the pulse that is a
\* key of tvals_dict and no crosstalk-cancellation channel to
\* truncate_wave(tvals_dict[c], chan_wf(c, tvals_dict[c])), or to the
\* truncated all-zero array when pulse_off is true
C7_DefaultComposition ==
  ret.op = "waveforms" =>
    \A c \in ret.keys :
      (IsMember(Callee, c) /\ ~InSeq(c, XtChannels(Callee))) =>
        LET w == chan_wf(Callee, c, ret.tvals)
            tr == truncate_wave(Callee, ret.tvals,
                    IF pulse_off(Callee) THEN Zeros(Len(ret.tvals)) ELSE w.val)
        IN (w.kind = "array" /\ tr.kind = "array") =>
             /\ ret.out.kind = "dict"
             /\ c \in DOMAIN ret.out.val
             /\ ret.out.val[c] = tr.val

\* C8: waveforms maps every crosstalk-cancellation channel c in tvals_dict to
\* the truncation of the sum, over the pulse's channels c2 listed in
\* crosstalk_cancellation_channels, of mtx[idx(c), idx(c2)] *
\* chan_wf(c2, tvals_dict[c] - shift), shift = shift_mtx[idx(c), idx(c2)] or 0
\* without a shift matrix; to the all-zero array when pulse_off is true
RECURSIVE SumOver(_, _)
SumOver(S, f) ==
  IF S = {} THEN 0
  ELSE LET k == CHOOSE x \in S : TRUE IN f[k] + SumOver(S \ {k}, f)
XtContributors(obj) ==
  {k \in 1..Len(channels(obj)) : InSeq(channels(obj)[k], XtChannels(obj))}
XtTerm(obj, c, k, tvals) ==
  LET i1 == IndexOf(c, XtChannels(obj))
      i2 == IndexOf(channels(obj)[k], XtChannels(obj))
      shift == IF obj.crosstalk_cancellation_shift_mtx = None THEN 0
               ELSE obj.crosstalk_cancellation_shift_mtx[1][i1][i2]
      w == chan_wf(obj, channels(obj)[k],
                   [n \in 1..Len(tvals) |-> tvals[n] - shift])
  IN IF w.kind # "array" THEN w
     ELSE Arr([n \in 1..Len(tvals) |->
                 obj.crosstalk_cancellation_mtx[1][i1][i2] * w.val[n]])
XtExpected(obj, c, tvals) ==
  [n \in 1..Len(tvals) |->
     SumOver(XtContributors(obj),
             [k \in XtContributors(obj) |-> XtTerm(obj, c, k, tvals).val[n]])]
C9_AreaOfWaveforms ==
  ret.op = "pulse_area" =>
    LET wfs == waveforms(Callee, (ret.chan :> ret.tvals))
    IN /\ (wfs.kind = "dict" /\ ret.chan \in DOMAIN wfs.val) =>
            /\ ret.out.kind = "number"
            /\ ret.out.val = (ret.tvals[2] - ret.tvals[1])
                             * SumSeq(wfs.val[ret.chan])
       /\ pulse_off(Callee) => ret.out = Number(0)
       /\ (HasAttr(Callee, "crosstalk_cancellation_channels")
           /\ ~IsMember(Callee, ret.chan)
           /\ ~InSeq(ret.chan, XtChannels(Callee))) => ret.out = Number(0)

\* C10: truncate_wave returns wave unchanged when truncation_length is None;
\* with truncation_length = L and truncation_decay_sigma = 0 the result has
\* the length of wave, equals wave[i] where tvals[i] <= tvals[0] + L and 0
\* where tvals[i] > tvals[0] + L
C10_IdentityAndHardCut ==
  ret.op = "truncate_wave" =>
    /\ (~HasAttr(Callee, "truncation_length")
        \/ Callee.truncation_length = None) => ret.out = Arr(ret.wave)
    /\ (HasAttr(Callee, "truncation_length")
        /\ Callee.truncation_length # None
        /\ Callee.truncation_decay_sigma = 0) =>
         /\ ret.out.kind = "array"
         /\ Len(ret.out.val) = Len(ret.wave)
         /\ \A i \in 1..Len(ret.wave) :
              ret.out.val[i] =
                IF ret.tvals[i] <= ret.tvals[1] + Callee.truncation_length[1]
                THEN ret.wave[i] ELSE 0
Idempotent ==
  ret.out.kind = "array" =>
    truncate_wave(Callee, ret.tvals, ret.out.val) = ret.out
\* C10 as stated: the above, and applying truncate_wave twice gives the same
\* result as applying it once, whatever the truncation settings
C10_AsStated ==
  /\ C10_IdentityAndHardCut
  /\ ret.op = "truncate_wave" => Idempotent
\* C10 amended: the above, and applying truncate_wave twice gives the same
\* result as applying it once when truncation_length is None or
\* truncation_decay_sigma is 0
C10_Amended ==
  /\ C10_IdentityAndHardCut
  /\ (ret.op = "truncate_wave"
      /\ (~HasAttr(Callee, "truncation_length")
          \/ Callee.truncation_length = None
          \/ Callee.truncation_decay_sigma = 0)) => Idempotent
\* truncate_wave cut a wave short with truncation_length set and no decay
C10_Witness ==
  /\ ret.op = "truncate_wave"
  /\ HasAttr(Callee, "truncation_length")
  /\ Callee.truncation_length # None
  /\ Callee.truncation_decay_sigma = 0
  /\ ret.out.kind = "array" /\ ret.out.val # ret.wave

\* C11: for an NZBufferedCZPulse with gaussian_filter_sigma = 0, the samples
\* of chan_wf over a uniform grid that covers the whole pulse (buffer_start +
\* pulse_length + buffer_end), times the sample spacing, sum to 0 on the main
\* channel and on every auxiliary channel, whatever amplitude, alpha and
\* pulse_length are
C11_NetZeroArea ==
  (/\ ret.op = "chan_wf" /\ Callee.shape = "NZBufferedCZPulse"
   /\ Callee.gaussian_filter_sigma = 0 /\ IsMember(Callee, ret.chan)
   /\ Callee.length <= Len(ret.tvals) * (ret.tvals[2] - ret.tvals[1]))
  => /\ ret.out.kind = "array"
     /\ (ret.tvals[2] - ret.tvals[1]) * SumSeq(ret.out.val) = 0

\* C12: constructing an NZTransitionControlledPulse raises AssertionError and
\* leaves no pulse object when |main_len * amp_offset| >= |trans_len *
\* trans_amp| on at least one channel (trans_amp = 0 included: no division by
\* zero is reached); it succeeds when the strict inequality holds on every
\* channel
Infeasible(kw, c) ==
  Abs(kw.main_lens * PerChannel(kw.amp_offsets, Len(kw.channels))[c])
    >= Abs(kw.trans_lens * kw.trans_amps)
C12_InfeasibleRaises ==
  (ret.op = "init" /\ ret.chan = "NZTransitionControlledPulse") =>
    /\ (\E c \in 1..Len(ret.kw.channels) : Infeasible(ret.kw, c))
         => (ret.out = Raise("AssertionError") /\ ~Exists(ret.who))
    /\ (\A c \in 1..Len(ret.kw.channels) : ~Infeasible(ret.kw, c))
         => (ret.out = PyNone /\ Exists(ret.who)
             /\ Callee.shape = "NZTransitionControlledPulse")
\* the constructor raised for arguments that are feasible on the first
\* channel and infeasible on the second
C12_Witness ==
  /\ ret.op = "init" /\ ret.chan = "NZTransitionControlledPulse"
  /\ ~Infeasible(ret.kw, 1) /\ Infeasible(ret.kw, 2)
  /\ ret.out = Raise("AssertionError") /\ ~Exists(ret.who)

\* C13: on every channel of a constructed NZTransitionControlledPulse the
\* six segments satisfy sum of length * amplitude = 0
SegmentArea(obj, idx) ==
  SumSeq([k \in 1..Len(obj.lengths[idx]) |->
            obj.lengths[idx][k] * obj.amplitudes[idx][k]])
C13_SegmentsNetZero ==
  \A i \in {1, 2} :
    pulse[i].shape = "NZTransitionControlledPulse" =>
      \A idx \in 1..Len(pulse[i].channels) :
        /\ Len(pulse[i].lengths[idx]) = 6
        /\ SegmentArea(pulse[i], idx) = 0
\* a constructed pulse with a non-zero amplitude offset on a channel, so that
\* the two transition segments differ in length
C13_Witness ==
  /\ pulse[1].shape = "NZTransitionControlledPulse"
  /\ \E idx \in 1..Len(pulse[1].channels) :
       /\ pulse[1].amplitudes[idx][2] # -pulse[1].amplitudes[idx][5]
       /\ pulse[1].lengths[idx][3] # pulse[1].lengths[idx][4]

\* C14: a BufferedNZFLIPPulse with gaussian_filter_sigma = 0 has zero time
\* integral on each of its two channels: amp * length1[c] - alpha * amp *
\* length2[c] = 0, whatever amplitude, alpha, pulse_length and the flux
\* buffer lengths are
C14_FlipNetZero ==
  \A i \in {1, 2} :
    (pulse[i].shape = "BufferedNZFLIPPulse"
     /\ pulse[i].gaussian_filter_sigma = 0) =>
      \A c \in {pulse[i].channel, pulse[i].channel2} :
        pulse[i].amps[c] * pulse[i].length1[c]
          - pulse[i].alphas[c] * pulse[i].amps[c] * pulse[i].length2[c] = 0

\* C15: in a BufferedFLIPPulse and a BufferedNZFLIPPulse the pulse on channel2
\* starts channel_relative_delay + flux_buffer_length - flux_buffer_length2
\* after the pulse on channel, for both signs of the delay, and no
\* per-channel buffer_length_start or buffer_length_end is smaller than the
\* scalar the pulse was configured with
FlipShapes == {"BufferedFLIPPulse", "BufferedNZFLIPPulse"}
\* the time of the first non-zero sample of the pulse on channel c, relative
\* to the start of the grid
Onset(obj, c) ==
  LET w == chan_wf(obj, c, Tvals(0, 1)).val
  IN (CHOOSE n \in 1..Len(w) : w[n] # 0 /\ \A m \in 1..(n - 1) : w[m] = 0) - 1
C15_RelativeDelay ==
  \A i \in {1, 2} :
    pulse[i].shape \in FlipShapes =>
      LET obj == pulse[i]
          kw == kwargs[i]
      IN /\ obj.buffer_length_start[obj.channel2]
              - obj.buffer_length_start[obj.channel]
            = kw.channel_relative_delay + kw.flux_buffer_length
              - kw.flux_buffer_length2
         /\ obj.gaussian_filter_sigma = 0 =>
              Onset(obj, obj.channel2) - Onset(obj, obj.channel)
              = kw.channel_relative_delay + kw.flux_buffer_length
                - kw.flux_buffer_length2
         /\ \A c \in {obj.channel, obj.channel2} :
              /\ obj.buffer_length_start[c] >= kw.buffer_length_start
              /\ obj.buffer_length_end[c] >= kw.buffer_length_end
\* a pulse with a negative delay and equal flux buffers: the pulse on channel
\* starts after the pulse on channel2
C15_Witness ==
  /\ pulse[1].shape \in FlipShapes
  /\ kwargs[1].channel_relative_delay < 0
  /\ kwargs[1].flux_buffer_length = kwargs[1].flux_buffer_length2
  /\ pulse[1].gaussian_filter_sigma = 0
  /\ Onset(pulse[1], pulse[1].channel) > Onset(pulse[1], pulse[1].channel2)

\* C16: chan_wf of a BufferedSquarePulse with gaussian_filter_sigma = 0
\* returns len(tvals) samples; sample i is the amplitude when tvals[0] +
\* buffer_length_start <= tvals[i] < tvals[0] + buffer_length_start +
\* pulse_length and 0 otherwise
C16_BufferedSquareSamples ==
  (ret.op = "chan_wf" /\ Callee.shape = "BufferedSquarePulse"
   /\ Callee.gaussian_filter_sigma = 0) =>
    /\ ret.out.kind = "array"
    /\ Len(ret.out.val) = Len(ret.tvals)
    /\ \A n \in 1..Len(ret.tvals) :
         ret.out.val[n] =
           IF /\ ret.tvals[1] + Callee.buffer_length_start <= ret.tvals[n]
              /\ ret.tvals[n] < ret.tvals[1] + Callee.buffer_length_start
                                  + Callee.pulse_length
           THEN Callee.amplitude ELSE 0
\* the scenario at the scale of the grid: buffers of one sample around a
\* pulse of two samples give a zero, two amplitude samples, a zero
C16_Witness ==
  /\ ret.op = "chan_wf" /\ Callee.shape = "BufferedSquarePulse"
  /\ Callee.gaussian_filter_sigma = 0
  /\ Callee.buffer_length_start = 1 /\ Callee.buffer_length_end = 1
  /\ Callee.pulse_length = 2 /\ ret.out.kind = "array"
  /\ SubSeq(ret.out.val, 1, 4)
       = <<0, Callee.amplitude, Callee.amplitude, 0>>

\* C17: pulse_params() of every pulse class of pulse_library returns a
\* mapping that has the key 'pulse_type'
C17_PulseTypeDeclared ==
  ret.op = "pulse_params" =>
    /\ ret.out.kind = "dict"
    /\ "pulse_type" \in DOMAIN ret.out.val

\* C18: filter_fir(kernel, x) of a non-empty kernel and a signal x with
\* samples returns exactly len(x) samples, and returns x sample for sample
\* when the kernel is a unit impulse (a single 1 at any index, zeros elsewhere)
UnitImpulse(kernel) ==
  \E p \in 1..Len(kernel) :
    \A q \in 1..Len(kernel) : kernel[q] = IF q = p THEN 1 ELSE 0
IdentitySections(a, b) ==
  \A k \in 1..Min(Len(a), Len(b)) : a[k] = <<1, 0>> /\ b[k] = <<1, 0>>
RECURSIVE Cascade(_, _, _, _)
Cascade(a, b, x, n) ==
  IF n = 0 THEN Arr(x) ELSE lfilter(b[n], a[n], Cascade(a, b, x, n - 1))
C19_IirSeries ==
  ret.op = "filter_iir" =>
    /\ IdentitySections(ret.a, ret.b) => ret.out = Arr(ret.wave)
    /\ ret.out = Cascade(ret.a, ret.b, ret.wave, Min(Len(ret.a), Len(ret.b)))
\* two identity sections returned a signal that is not constant
C19_Witness ==
  /\ ret.op = "filter_iir" /\ Len(ret.a) = 2 /\ Len(ret.b) = 2
  /\ IdentitySections(ret.a, ret.b)
  /\ ret.wave[1] # ret.wave[2] /\ ret.out = Arr(ret.wave)

\* C20: after distort_qudev(element, distortion_dict) returns, for every
\* channel ch of ch_list chan_distorted[ch] is True and distorted_wfs[ch] is
\* the generated waveform of ch passed through the FIR kernel (unless FIR is
\* None) and then through the IIR sections (unless IIR is None): the
\* generated waveform itself when both are None
Expected(filter_dict, wf) ==
  LET afterFir == IF filter_dict.FIR = None THEN wf
                  ELSE filter_fir(filter_dict.FIR[1], wf).val
  IN IF filter_dict.IIR = None THEN afterFir
     ELSE Cascade(filter_dict.IIR[1][1], filter_dict.IIR[1][2], afterFir,
                  Len(filter_dict.IIR[1][1])).val
C20_DistortedWaveforms ==
  (ret.op = "distort_qudev" /\ ret.out.kind # "raise") =>
    \A k \in 1..Len(ret.distortion_dict.ch_list) :
      LET ch == ret.distortion_dict.ch_list[k]
      IN /\ HasKey(element.chan_distorted, ch) /\ element.chan_distorted[ch]
         /\ HasKey(element.distorted_wfs, ch)
         /\ element.distorted_wfs[ch]
              = Expected(ret.distortion_dict.filters[ch], ret.before.wfs[ch])
\* a channel was distorted by a FIR kernel and an IIR section, another call
\* passed a channel through with both None
C20_Witness ==
  /\ ret.op = "distort_qudev" /\ ret.out.kind # "raise"
  /\ LET ch == ret.distortion_dict.ch_list[1]
         f == ret.distortion_dict.filters[ch]
     IN /\ f.FIR # None /\ f.IIR # None /\ Len(f.IIR[1][1]) > 0
        /\ element.distorted_wfs[ch] # ret.before.wfs[ch]
        /\ element.chan_distorted[ch]

\* ---- C21
\* the channels of the element that ch_list of the last call does not name
OutsideChList(dd) ==
  {c \in DOMAIN ret.before.wfs \cup DOMAIN ret.before.chan_distorted
         \cup DOMAIN element.chan_distorted \cup DOMAIN element.distorted_wfs :
     ~InSeq(c, dd.ch_list)}
SameEntry(d1, d2, c) ==
  /\ HasKey(d1, c) <=> HasKey(d2, c)
  /\ HasKey(d1, c) => d1[c] = d2[c]
ExtentDen(obj) == IF obj.shape = "BufferedNZFLIPPulse" THEN obj.den ELSE 1
Extent(obj, c) ==
  IF obj.shape = "BufferedNZFLIPPulse"
  THEN obj.den * (obj.buffer_length_start[c] + 2 * obj.flux_buffer[c]
                  + obj.buffer_length_end[c])
       + obj.length1[c] + obj.length2[c]
  ELSE obj.buffer_length_start[c] + obj.length1[c] + obj.buffer_length_end[c]
LengthNum(obj) ==
  IF obj.shape = "BufferedNZFLIPPulse" THEN obj.length.num ELSE obj.length
\* C29: the length of a BufferedFLIPPulse and of a BufferedNZFLIPPulse equals,
\* on each of its two channels, the start buffer of the channel plus the
\* duration of the lobes and of the gap between them plus the end buffer of
\* the channel, so both channels have the same extent and it is length
C29_LengthIsExtent ==
  \A i \in {1, 2} :
    pulse[i].shape \in FlipShapes =>
      \A c \in {pulse[i].channel, pulse[i].channel2} :
        Extent(pulse[i], c) = LengthNum(pulse[i])

\* ---- C27
\* waveforms({c: tvals})[c]
EmittedWaveform(obj, c, tvals) ==
  waveforms_item(waveforms(obj, (c :> tvals)), c)
\* C27: two pulses of the same shape that return equal, non-empty
\* hashables(tstart, c) give the same waveforms({c: tvals})[c] for every
\* tvals, also when they differ in pulse_off, in the truncation attributes
\* or in the crosstalk-cancellation matrices
C27_ReuseSafety ==
  (ret.op = "hashables" /\ Exists(Other(ret.who)) /\ NonEmptyList(ret.out)
   /\ pulse[1].shape = pulse[2].shape
   /\ SameList(hashables(pulse[Other(ret.who)], ret.tstart, ret.chan), ret.out))
  => \A tvals \in TvalsSet :
       SameWave(EmittedWaveform(Callee, ret.chan, tvals),
                EmittedWaveform(pulse[Other(ret.who)], ret.chan, tvals))

\* ---- C30
\* C30: after any sequence of Sequence.add calls segments holds one segment
\* per name, in the order of first insertion: a call with a name that is
\* already present raises and leaves segments as it was, a call with a new
\* name appends the segment after the ones already there
C30_OneSegmentPerName ==
  /\ \A j, k \in 1..Len(segments) :
       segments[j].name = segments[k].name => j = k
  /\ \A k \in 1..Len(segments) : segments[k].name = segments[k].segment.name
  /\ ret.op = "add" =>
       IF ret.segment.name \in SegmentNames(ret.before)
       THEN ret.out.kind = "raise" /\ segments = ret.before
       ELSE /\ ret.out.kind # "raise"
            /\ segments = Append(ret.before, [name |-> ret.segment.name,
                                              segment |-> ret.segment])
\* a second Segment object with the name of the first stored segment was
\* added to a sequence of two segments: the call raised and the first object
\* is still the one stored
C30_Witness ==
  /\ ret.op = "add" /\ ret.out.kind = "raise"
  /\ Len(segments) = 2
  /\ segments[1].name = ret.segment.name
  /\ segments[1].segment # ret.segment

\* ---- C26
\* the non-empty kernel names of the channels in ch_list
ListedKernels(dd) ==
  {n \in UNION {Range(dd.kernels[c]) : c \in Range(dd.ch_list)} : n # ""}
\* what output_dict[ch] must be: the cached vector of each non-empty name
RECURSIVE CachedVectors(_, _)
CachedVectors(cache, names) ==
  IF names = <<>> THEN <<>>
  ELSE IF Head(names) = "" THEN CachedVectors(cache, Tail(names))
  ELSE <<cache[Head(names)]>> \o CachedVectors(cache, Tail(names))
\* C26: cached_kernels is append-only: whatever happens, an entry that was
\* in the cache is still there with the same vector; a call of
\* preload_kernels_func loads no name that was cached and no name twice, and
\* after a call that returns every non-empty kernel name of the listed
\* channels is cached and output_dict holds the cached vectors
C26_CacheAppendOnly ==
  /\ ret.op \in {"preload_kernels_func", "write_file"} =>
       \A n \in DOMAIN ret.before :
         HasKey(cached_kernels, n) /\ cached_kernels[n] = ret.before[n]
  /\ ret.op = "preload_kernels_func" =>
       /\ \A k \in 1..Len(ret.loaded) :
            /\ ~HasKey(ret.before, ret.loaded[k]) /\ ret.loaded[k] # ""
            /\ \A j \in 1..Len(ret.loaded) : ret.loaded[j] = ret.loaded[k] => j = k
       /\ ret.out.kind # "raise" =>
            /\ ListedKernels(ret.distortion_dict) \subseteq DOMAIN cached_kernels
            /\ \A c \in Range(ret.distortion_dict.ch_list) :
                 ret.out.val[c]
                   = CachedVectors(cached_kernels, ret.distortion_dict.kernels[c])
\* k1 was cached, its file was rewritten afterwards, and a call that lists k1
\* and k2 loaded only k2 and returned the vector k1 was cached with
C26_Witness ==
  /\ ret.op = "preload_kernels_func" /\ ret.out.kind = "dict"
  /\ HasKey(ret.before, "k1") /\ kernel_dir["k1"] # ret.before["k1"]
  /\ ret.loaded = <<"k2">>
  /\ ret.out.val["ch1"] = <<cached_kernels["k2"], ret.before["k1"]>>

\* ---- C22
IsFluxCall == ret.op = "martinis_flux_pulse_v2"
\* C22: martinis_flux_pulse_v2 returns exactly round(length * sampling_rate)
\* samples, also for a length that is not a whole number of sample periods
C22_SampleCount ==
  (IsFluxCall /\ ret.out.kind = "array") =>
    Len(ret.out.val) = np_round(ret.args.length, TimeDen)

\* ---- C23
\* C23: every sample martinis_flux_pulse_v2 returns is at least clip_min
\* (theta_i when theta_f_must_be_above, else 0) and below pi, the
\* extrapolated samples included; an angle of y / AngleDen units is below pi
\* exactly when y < AngleDen * (PiMinus001 + 1)
C23_SamplesInRange ==
  (IsFluxCall /\ ret.out.kind = "array") =>
    \A j \in 1..Len(ret.out.val) :
      /\ ret.out.val[j] >= AngleDen * (IF ret.args.theta_f_must_be_above
                                       THEN ret.args.theta_i ELSE 0)
      /\ ret.out.val[j] < AngleDen * (PiMinus001 + 1)

\* ---- C24
\* C24: the first sample of the trajectory before the step and the clipping
\* is theta_i, whatever lambda_1..lambda_4 are
C24_StartsAtThetaI ==
  IsFluxCall => ret.theta_wave[1] = AngleDen * ret.args.theta_i

\* ---- C25
\* C25: called with theta_f <= theta_i, theta_f_must_be_above, step_height = 0
\* and theta_i <= pi - 0.01, martinis_flux_pulse_v2 does not raise, uses
\* theta_i as the final angle and returns theta_i in every sample, whatever
\* the lambdas, the length and the placing of the step are
FlatCase(args) ==
  /\ args.theta_f <= args.theta_i /\ args.theta_f_must_be_above
  /\ args.step_height = 0 /\ args.theta_i <= PiMinus001
C25_FlatLine ==
  (IsFluxCall /\ FlatCase(ret.args)) =>
    /\ ret.out.kind = "array"
    /\ ret.theta_f = ret.args.theta_i
    /\ \A j \in 1..Len(ret.out.val) :
         ret.out.val[j] = AngleDen * ret.args.theta_i
\* theta_f below theta_i with lambdas that make dtheta_vec negative in places
\* and a length of 4.25 samples, so that the fifth sample is extrapolated
C25_Witness ==
  /\ IsFluxCall /\ FlatCase(ret.args)
  /\ ret.args.theta_f < ret.args.theta_i
  /\ ret.args.lambda_1 = 1 /\ ret.args.lambda_2 = -1
  /\ \E k \in 0..3 : martinis_dtheta(ret.args, k, 4) < 0
  /\ ret.args.length = 17 /\ Len(ret.out.val) = 5

\* ---- C28
\* C28: after the normalisation of the lambdas the trajectory before the step
\* and the clipping passes through theta_f at the centre tau = length / 2,
\* whatever lambda_1..lambda_4 are (the centre is a sample when the number of
\* samples is even)
C28_CentreIsThetaF ==
  (IsFluxCall /\ Len(ret.theta_wave) % 2 = 0) =>
    ret.theta_wave[(Len(ret.theta_wave) \div 2) + 1] = AngleDen * ret.theta_f

====
